---------------------------- MODULE Spec2Model ----------------------------
(***************************************************************************)
(* A model of the route planners of this repository:                       *)
(*   "ft"   src/fantastic-tour.py          (RouteAPI + FantasticRouterApp) *)
(*   "tour" src/fantasticTour.py           (RouteAPI + FantasticRouterApp) *)
(*   "cli"  src/graphhopper_parse-json_7.py (MapQuestEnhanced)             *)
(* The variable app says which of the three programs is running.           *)
(*                                                                         *)
(* Data representation.                                                    *)
(*  - A Python str that the code measures, strips or searches is a TEXT:   *)
(*    a run-length encoded sequence of runs [c |-> char, n |-> count],     *)
(*    adjacent runs having different characters.  "aab" is                 *)
(*    <<[c |-> "a", n |-> 2], [c |-> "b", n |-> 1]>>.                      *)
(*  - A display name is a sequence of tokens, each either one of the       *)
(*    separator characters "," and " " or a word holding neither.          *)
(*  - A JSON value where the code expects a number is Absent, Num(n) or    *)
(*    Str (a value of the wrong type).  Degrees, metres and milliseconds   *)
(*    are integers, except in the formatting functions, whose distance is  *)
(*    an integer number of hundredths of a metre.                          *)
(*  - A dictionary returned by RouteAPI is a record with a status field;   *)
(*    status "raise" stands for an exception that leaves the function.     *)
(*  - gets lists the HTTP GETs a workflow has issued and answers what the   *)
(*    upstream returned to each of them, in the same order.                *)
(***************************************************************************)
EXTENDS Integers, Sequences, FiniteSets, TLC

VARIABLES
    app,              \* which program runs: "ft", "tour" or "cli"
    key,              \* RouteAPI.key / MapQuestEnhanced.key
    last_call,        \* the most recent direct call of an API function
    start_entry,      \* GUI: text of the origin entry
    end_entry,        \* GUI: text of the destination entry
    vehicle_var,      \* GUI: the selected radio button value
    button,           \* GUI: state of get_route_button
    is_calculating,   \* GUI (tour): FantasticRouterApp.is_calculating
    status_label,     \* GUI: what the status bar shows
    results,          \* GUI: distance label, time label, directions box
    tk_queue,         \* GUI: callbacks handed to Tk with after()
    workers,          \* GUI: the worker threads
    threads,          \* GUI: how many worker threads have been started
    cli               \* CLI: position and locals of main_flow

vars == <<app, key, last_call, start_entry, end_entry, vehicle_var, button,
          is_calculating, status_label, results, tk_queue, workers, threads, cli>>

guiVars == <<start_entry, end_entry, vehicle_var, button, is_calculating,
             status_label, results, tk_queue, workers, threads>>

-----------------------------------------------------------------------------
(* Texts *)

R(ch, k) == [c |-> ch, n |-> k]

EmptyText == <<>>

RECURSIVE Norm(_)
Norm(t) ==
    IF Len(t) = 0 THEN <<>>
    ELSE IF Len(t) = 1 THEN <<t[1]>>
    ELSE IF t[1].c = t[2].c
         THEN Norm(<<R(t[1].c, t[1].n + t[2].n)>> \o SubSeq(t, 3, Len(t)))
         ELSE <<t[1]>> \o Norm(Tail(t))

RECURSIVE TLen(_)
TLen(t) == IF t = <<>> THEN 0 ELSE Head(t).n + TLen(Tail(t))

Whitespace == {" ", "\t", "\n"}

RECURSIVE LStrip(_)
LStrip(t) ==
    IF t = <<>> THEN <<>>
    ELSE IF Head(t).c \in Whitespace THEN LStrip(Tail(t)) ELSE t

RECURSIVE RStrip(_)
RStrip(t) ==
    IF t = <<>> THEN <<>>
    ELSE IF t[Len(t)].c \in Whitespace THEN RStrip(SubSeq(t, 1, Len(t) - 1)) ELSE t

Strip(t) == RStrip(LStrip(t))

Contains(t, ch) == \E i \in DOMAIN t : t[i].c = ch

UpperChars == <<"A", "B", "C", "D", "E", "F", "G", "H", "I", "J", "K", "L", "M",
                "N", "O", "P", "Q", "R", "S", "T", "U", "V", "W", "X", "Y", "Z">>
LowerChars == <<"a", "b", "c", "d", "e", "f", "g", "h", "i", "j", "k", "l", "m",
                "n", "o", "p", "q", "r", "s", "t", "u", "v", "w", "x", "y", "z">>

LowerChar(ch) ==
    IF \E i \in DOMAIN UpperChars : UpperChars[i] = ch
    THEN LowerChars[CHOOSE i \in DOMAIN UpperChars : UpperChars[i] = ch]
    ELSE ch

Lower(t) == Norm([i \in DOMAIN t |-> R(LowerChar(t[i].c), t[i].n)])

\* The text spelled by a sequence of characters.
Txt(chars) == Norm([i \in DOMAIN chars |-> R(chars[i], 1)])

-----------------------------------------------------------------------------
(* JSON values, messages, results *)

Absent == [t |-> "absent", n |-> 0]
Num(x) == [t |-> "num", n |-> x]
Str    == [t |-> "str", n |-> 0]

NoStr == [p |-> FALSE, v |-> ""]
SomeStr(s) == [p |-> TRUE, v |-> s]

NoName == [p |-> FALSE, v |-> <<>>]
SomeName(toks) == [p |-> TRUE, v |-> toks]

\* A message: its fixed text, and what the f-string interpolates into it.
Msg(s) == [text |-> s, code |-> 0, loc |-> EmptyText, exc |-> ""]
MsgCode(s, status) == [text |-> s, code |-> status, loc |-> EmptyText, exc |-> ""]
MsgLoc(s, location) == [text |-> s, code |-> 0, loc |-> location, exc |-> ""]
MsgExc(s, e) == [text |-> s, code |-> 0, loc |-> EmptyText, exc |-> e]
NoMsg == Msg("")

NoData == [json |-> "none"]

Error(m) == [status |-> "error", message |-> m, lat |-> Absent, lng |-> Absent,
             name |-> <<>>, data |-> NoData]
Success == [status |-> "success", message |-> NoMsg, lat |-> Absent, lng |-> Absent,
            name |-> <<>>, data |-> NoData]
Raise(e) == [status |-> "raise", message |-> MsgExc("", e), lat |-> Absent,
             lng |-> Absent, name |-> <<>>, data |-> NoData]
GeoSuccess(la, ln, nm) == [Success EXCEPT !.lat = la, !.lng = ln, !.name = nm]
RouteSuccess(d) == [Success EXCEPT !.data = d]
NoResult == [status |-> "none", message |-> NoMsg, lat |-> Absent, lng |-> Absent,
             name |-> <<>>, data |-> NoData]

\* What a call returns and the HTTP GETs it issued, in order.
Ret(r, g) == [ret |-> r, gets |-> g]

NoPoint == [lat |-> Absent, lng |-> Absent]
GeocodeUrl(location, k) ==
    [api |-> "geocode", q |-> location, key |-> k, vehicle |-> "",
     point1 |-> NoPoint, point2 |-> NoPoint]
RouteUrl(s, e, vehicle, k) ==
    [api |-> "route", q |-> EmptyText, key |-> k, vehicle |-> vehicle,
     point1 |-> [lat |-> s.lat, lng |-> s.lng],
     point2 |-> [lat |-> e.lat, lng |-> e.lng]]

-----------------------------------------------------------------------------
(* RouteAPI validators (the two GUI files hold the same code) *)

MinLocationLen == 2
MaxLocationLen == 200
MinLat == -90
MaxLat == 90
MinLng == -180
MaxLng == 180

KeyNone == [t |-> "none", s |-> EmptyText]
KeyStr(s) == [t |-> "str", s |-> s]
KeyInt(x) == [t |-> IF x = 0 THEN "zero" ELSE "int", s |-> EmptyText]

\* A variant that tests the type of the key before its truth.
validate_api_key_type_first(k) ==
    IF k.t \in {"zero", "int"} \/ (k.t = "str" /\ k.s # EmptyText /\ TLen(Strip(k.s)) = 0)
    THEN Error(Msg("Invalid API key format."))
    ELSE IF k.t = "none" \/ k.s = EmptyText
    THEN Error(Msg("API key not found. Please check your .env file."))
    ELSE Success

validate_api_key(k) ==
    IF k.t \in {"none", "zero"} \/ (k.t = "str" /\ k.s = EmptyText)
    THEN Error(Msg("API key not found. Please check your .env file."))
    ELSE IF k.t # "str" \/ TLen(Strip(k.s)) = 0
    THEN Error(Msg("Invalid API key format."))
    ELSE Success

IllegalChars == {"<", ">", ";", "|", "&", "$"}

\* A variant of validate_location_input that measures the text as typed,
\* without strip(), for the minimum length.
validate_location_input_untrimmed(location) ==
    IF location = EmptyText \/ Strip(location) = EmptyText
    THEN Error(Msg("Location cannot be empty."))
    ELSE IF TLen(location) < MinLocationLen
    THEN Error(Msg("Location must be at least 2 characters long."))
    ELSE IF TLen(location) > MaxLocationLen
    THEN Error(Msg("Location is too long (max 200 characters)."))
    ELSE IF \E ch \in IllegalChars : Contains(location, ch)
    THEN Error(Msg("Invalid characters in location."))
    ELSE Success

\* A variant of validate_location_input whose list of characters lacks '$'.
validate_location_input_no_dollar(location) ==
    IF location = EmptyText \/ Strip(location) = EmptyText
    THEN Error(Msg("Location cannot be empty."))
    ELSE IF TLen(Strip(location)) < MinLocationLen
    THEN Error(Msg("Location must be at least 2 characters long."))
    ELSE IF TLen(location) > MaxLocationLen
    THEN Error(Msg("Location is too long (max 200 characters)."))
    ELSE IF \E ch \in IllegalChars \ {"$"} : Contains(location, ch)
    THEN Error(Msg("Invalid characters in location."))
    ELSE Success

\* A variant of validate_location_input that measures the stripped text for
\* the maximum length.
validate_location_input_trimmed_max(location) ==
    IF location = EmptyText \/ Strip(location) = EmptyText
    THEN Error(Msg("Location cannot be empty."))
    ELSE IF TLen(Strip(location)) < MinLocationLen
    THEN Error(Msg("Location must be at least 2 characters long."))
    ELSE IF TLen(Strip(location)) > MaxLocationLen
    THEN Error(Msg("Location is too long (max 200 characters)."))
    ELSE IF \E ch \in IllegalChars : Contains(location, ch)
    THEN Error(Msg("Invalid characters in location."))
    ELSE Success

\* RouteAPI.validate_location_input
validate_location_input(location) ==
    IF location = EmptyText \/ Strip(location) = EmptyText
    THEN Error(Msg("Location cannot be empty."))
    ELSE IF TLen(Strip(location)) < MinLocationLen
    THEN Error(Msg("Location must be at least 2 characters long."))
    ELSE IF TLen(location) > MaxLocationLen
    THEN Error(Msg("Location is too long (max 200 characters)."))
    ELSE IF \E ch \in IllegalChars : Contains(location, ch)
    THEN Error(Msg("Invalid characters in location."))
    ELSE Success

valid_vehicles == {"car", "bike", "foot"}

\* A variant of validate_vehicle_type that takes the capitalised tokens too.
validate_vehicle_type_any_case(vehicle) ==
    IF vehicle \notin valid_vehicles \cup {"Car", "Bike", "Foot"}
    THEN Error(Msg("Invalid vehicle type. Must be one of: car, bike, foot"))
    ELSE Success

\* RouteAPI.validate_vehicle_type
validate_vehicle_type(vehicle) ==
    IF vehicle \notin valid_vehicles
    THEN Error(Msg("Invalid vehicle type. Must be one of: car, bike, foot"))
    ELSE Success

-----------------------------------------------------------------------------
(* The upstream's answer to one HTTP GET.                                  *)
(*   kind   "timeout" | "connection_error" | "request_exception" |         *)
(*          "response"                                                     *)
(*   status the HTTP status code of a response                             *)
(*   body   json: "dict" | "list" (valid JSON, not an object) |            *)
(*                "invalid" (json() raises ValueError) |                   *)
(*                "invalid_rex" (json() raises requests' JSONDecodeError,  *)
(*                 a RequestException as well as a ValueError)             *)
(* A geocoding body has hits: "absent" | "empty" | "list" | "scalar", an   *)
(* optional message and the first hit; a routing body has paths:           *)
(* "absent" | "empty" | "list", an optional message and the first path.    *)

\* A variant of InRange that leaves the two ends out.
InRange_exclusive(v, lo, hi) == lo < v.n /\ v.n < hi

\* lo <= v <= hi, for a value that is a number
InRange(v, lo, hi) == lo <= v.n /\ v.n <= hi

\* name, state, country joined by ", " and .strip(", ")
Separators == {",", " "}

RECURSIVE LStripSep(_)
LStripSep(toks) ==
    IF toks = <<>> THEN <<>>
    ELSE IF Head(toks) \in Separators THEN LStripSep(Tail(toks)) ELSE toks

RECURSIVE RStripSep(_)
RStripSep(toks) ==
    IF toks = <<>> THEN <<>>
    ELSE IF toks[Len(toks)] \in Separators
         THEN RStripSep(SubSeq(toks, 1, Len(toks) - 1)) ELSE toks

full_name(name, state, country) ==
    RStripSep(LStripSep(name \o <<",", " ">> \o state \o <<",", " ">> \o country))

GetName(opt, default) == IF opt.p THEN opt.v ELSE default

\* A variant of FT_no_hits_error that leaves the queried text out of the
\* not-found message.
FT_no_hits_error_unnamed(location, body) ==
    IF body.hits = "absent"
    THEN Error(Msg("Invalid response format from geocoding service."))
    ELSE IF body.message.p
    THEN Error(Msg(body.message.v))
    ELSE Error(Msg("No results found"))

\* fantastic-tour.py, RouteAPI.geocode: the else branch, taken when the body
\* has no hits.
FT_no_hits_error(location, body) ==
    IF body.hits = "absent"
    THEN Error(Msg("Invalid response format from geocoding service."))
    ELSE IF body.message.p
    THEN Error(Msg(body.message.v))
    ELSE Error(MsgLoc("No results found for ", location))

\* fantastic-tour.py, RouteAPI.geocode: the try block, from requests.get on.
FT_geocode_response(location, resp) ==
    IF resp.kind = "timeout"
    THEN Error(Msg("Geocoding request timed out. Please try again."))
    ELSE IF resp.kind = "connection_error"
    THEN Error(Msg("Network connection error. Please check your internet connection."))
    ELSE IF resp.kind = "request_exception"
    THEN Error(MsgExc("Network error: ", "RequestException"))
    ELSE IF resp.status = 401
    THEN Error(Msg("Invalid API key. Please check your credentials."))
    ELSE IF resp.status = 403
    THEN Error(Msg("API access forbidden. Check your API key permissions."))
    ELSE IF resp.status = 429
    THEN Error(Msg("API rate limit exceeded. Please try again later."))
    ELSE IF resp.status >= 500
    THEN Error(Msg("Server error. Please try again later."))
    ELSE IF resp.status # 200
    THEN Error(MsgCode("API returned status code: ", resp.status))
    ELSE IF resp.body.json = "invalid_rex"
    THEN Error(MsgExc("Network error: ", "JSONDecodeError"))
    ELSE IF resp.body.json = "invalid"
    THEN Error(Msg("Invalid JSON response from server."))
    ELSE IF resp.body.json # "dict"
    THEN Error(Msg("Invalid API response format."))
    ELSE IF resp.body.hits \in {"list", "scalar"}
    THEN LET hit == resp.body.hit IN
         IF resp.body.hits = "scalar"
         THEN Error(MsgExc("Unexpected error: ", "TypeError"))
         ELSE IF hit.point = "absent"
         THEN Error(MsgExc("Unexpected error: ", "KeyError"))
         ELSE IF hit.lat.t = "absent" \/ hit.lng.t = "absent"
         THEN Error(Msg("Invalid coordinate data in API response."))
         ELSE IF hit.lat.t # "num"
         THEN Error(MsgExc("Unexpected error: ", "TypeError"))
         ELSE IF ~InRange(hit.lat, MinLat, MaxLat)
         THEN Error(Msg("Invalid coordinate values received."))
         ELSE IF hit.lng.t # "num"
         THEN Error(MsgExc("Unexpected error: ", "TypeError"))
         ELSE IF ~InRange(hit.lng, MinLng, MaxLng)
         THEN Error(Msg("Invalid coordinate values received."))
         ELSE GeoSuccess(hit.lat, hit.lng,
                         full_name(GetName(hit.name, <<"Unknown">>),
                                   GetName(hit.state, <<>>),
                                   GetName(hit.country, <<>>)))
    ELSE FT_no_hits_error(location, resp.body)

\* A variant of FT_geocode that sends the request a second time after a
\* timeout.
FT_geocode_retry(location, k, resp) ==
    IF validate_location_input(location).status = "error"
    THEN Ret(validate_location_input(location), <<>>)
    ELSE IF validate_api_key(k).status = "error"
    THEN Ret(validate_api_key(k), <<>>)
    ELSE IF resp.kind = "timeout"
    THEN Ret(FT_geocode_response(location, resp),
             <<GeocodeUrl(location, k), GeocodeUrl(location, k)>>)
    ELSE Ret(FT_geocode_response(location, resp), <<GeocodeUrl(location, k)>>)

\* fantastic-tour.py, RouteAPI.geocode
FT_geocode(location, k, resp) ==
    IF validate_location_input(location).status = "error"
    THEN Ret(validate_location_input(location), <<>>)
    ELSE IF validate_api_key(k).status = "error"
    THEN Ret(validate_api_key(k), <<>>)
    ELSE Ret(FT_geocode_response(location, resp), <<GeocodeUrl(location, k)>>)

\* fantasticTour.py, RouteAPI.geocode: the try block, from requests.get on.
Tour_geocode_response(location, resp) ==
    IF resp.kind = "timeout"
    THEN Error(MsgExc("Unexpected error: ", "Timeout"))
    ELSE IF resp.kind = "connection_error"
    THEN Error(MsgExc("Unexpected error: ", "ConnectionError"))
    ELSE IF resp.kind = "request_exception"
    THEN Error(MsgExc("Unexpected error: ", "RequestException"))
    ELSE IF resp.status # 200
    THEN Error(MsgCode("API returned status code: ", resp.status))
    ELSE IF resp.body.json \in {"invalid", "invalid_rex"}
    THEN Error(MsgExc("Unexpected error: ", "JSONDecodeError"))
    ELSE IF resp.body.json # "dict"
    THEN Error(MsgExc("Unexpected error: ", "AttributeError"))
    ELSE IF resp.body.hits \in {"list", "scalar"}
    THEN LET hit == resp.body.hit IN
         IF resp.body.hits = "scalar"
         THEN Error(MsgExc("Unexpected error: ", "TypeError"))
         ELSE IF hit.point = "absent" \/ hit.lat.t = "absent" \/ hit.lng.t = "absent"
         THEN Error(MsgExc("Unexpected error: ", "KeyError"))
         ELSE GeoSuccess(hit.lat, hit.lng,
                         full_name(GetName(hit.name, <<"Unknown">>),
                                   GetName(hit.state, <<>>),
                                   GetName(hit.country, <<>>)))
    ELSE Error(MsgLoc("No results found for ", location))

\* fantasticTour.py, RouteAPI.geocode
Tour_geocode(location, k, resp) ==
    IF validate_location_input(location).status = "error"
    THEN Ret(validate_location_input(location), <<>>)
    ELSE IF validate_api_key(k).status = "error"
    THEN Ret(validate_api_key(k), <<>>)
    ELSE Ret(Tour_geocode_response(location, resp), <<GeocodeUrl(location, k)>>)

\* graphhopper_parse-json_7.py, MapQuestEnhanced.geocoding: the try block.
\* status "error" is the tuple (None, None, None, None); "success" the tuple
\* (200, lat, lng, new_loc).  message is the line printed.
Cli_new_loc(name, state, country) ==
    IF state # <<>> /\ country # <<>>
    THEN name \o <<",", " ">> \o state \o <<",", " ">> \o country
    ELSE IF country # <<>>
    THEN name \o <<",", " ">> \o country
    ELSE name

Cli_geocoding_response(location, resp) ==
    IF resp.kind \in {"timeout", "connection_error", "request_exception"}
    THEN Error(MsgExc("Network error: ", resp.kind))
    ELSE IF resp.body.json = "invalid_rex"
    THEN Error(MsgExc("Network error: ", "JSONDecodeError"))
    ELSE IF resp.body.json = "invalid"
    THEN Error(MsgExc("Unexpected error: ", "JSONDecodeError"))
    ELSE IF resp.status = 200
    THEN IF resp.body.json # "dict"
         THEN Error(MsgExc("Unexpected error: ", "TypeError"))
         ELSE IF resp.body.hits = "absent"
         THEN Error(MsgExc("Unexpected error: ", "KeyError"))
         ELSE IF resp.body.hits = "scalar"
         THEN Error(MsgExc("Unexpected error: ", "TypeError"))
         ELSE IF resp.body.hits = "empty"
         THEN Error(MsgLoc("No results found for: ", location))
         ELSE LET hit == resp.body.hit IN
              IF hit.point = "absent" \/ hit.lat.t = "absent" \/ hit.lng.t = "absent"
                 \/ ~hit.name.p \/ ~hit.osm_value.p
              THEN Error(MsgExc("Unexpected error: ", "KeyError"))
              ELSE GeoSuccess(hit.lat, hit.lng,
                              Cli_new_loc(hit.name.v, GetName(hit.state, <<>>),
                                          GetName(hit.country, <<>>)))
    ELSE IF resp.body.json # "dict"
    THEN Error(MsgExc("Unexpected error: ", "AttributeError"))
    ELSE Error(MsgCode(IF resp.body.message.p THEN resp.body.message.v
                       ELSE "Unknown error", resp.status))

\* graphhopper_parse-json_7.py, MapQuestEnhanced.geocoding
Cli_geocoding(location, k, resp) ==
    IF location = EmptyText \/ Strip(location) = EmptyText
    THEN Ret(Error(Msg("Error: Location cannot be empty")), <<>>)
    ELSE Ret(Cli_geocoding_response(location, resp), <<GeocodeUrl(location, k)>>)

geocode(a, location, k, resp) ==
    CASE a = "ft"   -> FT_geocode(location, k, resp)
      [] a = "tour" -> Tour_geocode(location, k, resp)
      [] a = "cli"  -> Cli_geocoding(location, k, resp)

-----------------------------------------------------------------------------
(* RouteAPI.get_route.  A coordinate argument is [t, lat, lng] with t      *)
(* "dict" or "other" (not a dictionary).                                   *)

Coord(la, ln) == [t |-> "dict", lat |-> la, lng |-> ln]
NotADict == [t |-> "other", lat |-> Absent, lng |-> Absent]

\* all(-90 <= coord['lat'] <= 90 and -180 <= coord['lng'] <= 180 for coord in ...):
\* the comparisons run in order and stop at the first that is false; comparing
\* a value that is no number raises TypeError.
RECURSIVE AllInRange(_)
AllInRange(checks) ==
    IF checks = <<>> THEN "true"
    ELSE IF Head(checks).v.t # "num" THEN "raise"
    ELSE IF ~InRange(Head(checks).v, Head(checks).lo, Head(checks).hi) THEN "false"
    ELSE AllInRange(Tail(checks))

RangeChecks(s, e) ==
    <<[v |-> s.lat, lo |-> MinLat, hi |-> MaxLat], [v |-> s.lng, lo |-> MinLng, hi |-> MaxLng],
      [v |-> e.lat, lo |-> MinLat, hi |-> MaxLat], [v |-> e.lng, lo |-> MinLng, hi |-> MaxLng]>>

\* fantastic-tour.py, RouteAPI.get_route: the try block, from requests.get on.
FT_get_route_response(resp) ==
    IF resp.kind = "timeout"
    THEN Error(Msg("Routing request timed out. Please try again."))
    ELSE IF resp.kind = "connection_error"
    THEN Error(Msg("Network connection error during routing."))
    ELSE IF resp.kind = "request_exception"
    THEN Error(MsgExc("Network error during routing: ", "RequestException"))
    ELSE IF resp.status = 401
    THEN Error(Msg("Invalid API key for routing service."))
    ELSE IF resp.status = 403
    THEN Error(Msg("Routing API access forbidden."))
    ELSE IF resp.status = 429
    THEN Error(Msg("Routing API rate limit exceeded."))
    ELSE IF resp.status >= 500
    THEN Error(Msg("Routing server error. Please try again later."))
    ELSE IF resp.status # 200
    THEN Error(MsgCode("Routing API returned status code: ", resp.status))
    ELSE IF resp.body.json = "invalid_rex"
    THEN Error(MsgExc("Network error during routing: ", "JSONDecodeError"))
    ELSE IF resp.body.json = "invalid"
    THEN Error(Msg("Invalid JSON response from routing service."))
    ELSE IF resp.body.json # "dict"
    THEN Error(Msg("Invalid routing response format."))
    ELSE IF resp.body.paths \in {"absent", "empty"}
    THEN Error(Msg("No route path found in response."))
    ELSE IF resp.body.path.distance.t = "absent" \/ resp.body.path.time.t = "absent"
    THEN Error(Msg("Incomplete route data in response."))
    ELSE RouteSuccess(resp.body)

\* The checks RouteAPI.get_route makes before it builds the URL (both GUI files).
get_route_precheck(start_coords, end_coords, vehicle, k) ==
    IF start_coords.t # "dict" \/ end_coords.t # "dict"
    THEN Error(Msg("Invalid coordinate data."))
    ELSE IF start_coords.lat.t = "absent" \/ start_coords.lng.t = "absent"
            \/ end_coords.lat.t = "absent" \/ end_coords.lng.t = "absent"
    THEN Error(Msg("Missing coordinate data."))
    ELSE IF AllInRange(RangeChecks(start_coords, end_coords)) = "raise"
    THEN Raise("TypeError")
    ELSE IF AllInRange(RangeChecks(start_coords, end_coords)) = "false"
    THEN Error(Msg("Invalid coordinate values."))
    ELSE IF validate_vehicle_type(vehicle).status = "error"
    THEN validate_vehicle_type(vehicle)
    ELSE IF validate_api_key(k).status = "error"
    THEN validate_api_key(k)
    ELSE Success

\* fantastic-tour.py, RouteAPI.get_route
FT_get_route(start_coords, end_coords, vehicle, k, resp) ==
    IF get_route_precheck(start_coords, end_coords, vehicle, k).status # "success"
    THEN Ret(get_route_precheck(start_coords, end_coords, vehicle, k), <<>>)
    ELSE Ret(FT_get_route_response(resp),
             <<RouteUrl(start_coords, end_coords, vehicle, k)>>)

\* fantasticTour.py, RouteAPI.get_route: the try block, from requests.get on.
Tour_get_route_response(resp) ==
    IF resp.kind = "timeout"
    THEN Error(MsgExc("Unexpected routing error: ", "Timeout"))
    ELSE IF resp.kind = "connection_error"
    THEN Error(MsgExc("Unexpected routing error: ", "ConnectionError"))
    ELSE IF resp.kind = "request_exception"
    THEN Error(MsgExc("Unexpected routing error: ", "RequestException"))
    ELSE IF resp.status # 200
    THEN Error(MsgCode("Routing API returned status code: ", resp.status))
    ELSE IF resp.body.json \in {"invalid", "invalid_rex"}
    THEN Error(MsgExc("Unexpected routing error: ", "JSONDecodeError"))
    ELSE IF resp.body.json # "dict" \/ resp.body.paths \in {"absent", "empty"}
    THEN Error(Msg("No route path found in response."))
    ELSE RouteSuccess(resp.body)

\* fantasticTour.py, RouteAPI.get_route
Tour_get_route(start_coords, end_coords, vehicle, k, resp) ==
    IF get_route_precheck(start_coords, end_coords, vehicle, k).status # "success"
    THEN Ret(get_route_precheck(start_coords, end_coords, vehicle, k), <<>>)
    ELSE Ret(Tour_get_route_response(resp),
             <<RouteUrl(start_coords, end_coords, vehicle, k)>>)

get_route(a, start_coords, end_coords, vehicle, k, resp) ==
    CASE a = "ft"   -> FT_get_route(start_coords, end_coords, vehicle, k, resp)
      [] a = "tour" -> Tour_get_route(start_coords, end_coords, vehicle, k, resp)

-----------------------------------------------------------------------------
(* Inputs: the texts, keys and upstream answers the specifications draw from *)

Manila == Txt(<<"M", "a", "n", "i", "l", "a">>)
Cebu == Txt(<<"C", "e", "b", "u">>)

LocationSamples ==
    { EmptyText, <<R(" ", 3)>>, <<R("a", 1)>>, <<R(" ", 1), R("a", 1), R(" ", 1)>>,
      <<R("a", 2)>>, <<R("a", 1), R("b", 1)>>, Manila, Cebu, Lower(Manila),
      <<R(" ", 1)>> \o Manila \o <<R(" ", 2)>>,
      <<R("a", MaxLocationLen)>>, <<R("a", MaxLocationLen + 1)>>,
      <<R("a", MaxLocationLen - 1), R(" ", 2)>>,
      <<R(" ", MaxLocationLen), R("a", 2)>>,
      <<R(" ", 1)>>, <<R("\t", 1), R("a", 2), R("\n", 1)>>, <<R("Z", 1), R("z", 1)>>,
      <<R(" ", MaxLocationLen + 1)>>, <<R(" ", MaxLocationLen), R("a", 1)>>,
      <<R("a", 1), R(" ", MaxLocationLen - 1)>>,
      <<R("a", MaxLocationLen - 1), R("b", 1)>> }
    \cup { <<R("a", 1), R(ch, 1), R("b", 1)>> : ch \in IllegalChars }
    \cup { <<R(ch, 1)>> : ch \in IllegalChars }
    \cup { <<R("a", MaxLocationLen - 1), R(ch, 1)>> : ch \in IllegalChars }
    \cup { <<R("a", MaxLocationLen), R(ch, 1)>> : ch \in IllegalChars }

ValidKey == KeyStr(Txt(<<"k", "e", "y">>))
KeySamples == { KeyNone, KeyStr(EmptyText), KeyStr(<<R(" ", 1)>>), KeyInt(0), KeyInt(5),
                ValidKey }

StatusSamples == {100, 199, 201, 204, 301, 400, 401, 402, 403, 404, 428, 429, 430,
                  499, 500, 503, 599}

TransportFailures ==
    { [kind |-> k, status |-> 0, body |-> NoData] :
        k \in {"timeout", "connection_error", "request_exception"} }
Response(status, body) == [kind |-> "response", status |-> status, body |-> body]

Hit(la, ln, nm, st, co, osm) ==
    [point |-> "dict", lat |-> la, lng |-> ln, name |-> nm, state |-> st,
     country |-> co, osm_value |-> osm]
GeoBody(hits, message, hit) ==
    [json |-> "dict", hits |-> hits, message |-> message, hit |-> hit]

ManilaHit == Hit(Num(14), Num(120), SomeName(<<"Manila">>), SomeName(<<"NCR">>),
                 SomeName(<<"Philippines">>), SomeStr("city"))

LatSamples == { Absent, Str, Num(MinLat - 1), Num(MinLat), Num(14), Num(MaxLat),
                Num(MaxLat + 1) }
LngSamples == { Absent, Str, Num(MinLng - 1), Num(MinLng), Num(120), Num(MaxLng),
                Num(MaxLng + 1) }

HitSamples ==
    { Hit(la, ln, ManilaHit.name, ManilaHit.state, ManilaHit.country, SomeStr("city")) :
        la \in LatSamples, ln \in LngSamples }
    \cup { Hit(Num(14), Num(120), nm, st, co, osm) :
             nm \in { NoName, SomeName(<<>>), SomeName(<<"Manila">>) },
             st \in { NoName, SomeName(<<>>), SomeName(<<"NCR">>) },
             co \in { NoName, SomeName(<<>>), SomeName(<<"Philippines">>) },
             osm \in {NoStr, SomeStr("city")} }
    \cup { [ManilaHit EXCEPT !.point = "absent", !.lat = Absent, !.lng = Absent] }

GeoResponses ==
    TransportFailures
    \cup { Response(st, b) : st \in StatusSamples,
             b \in { GeoBody("list", NoStr, ManilaHit),
                     GeoBody("empty", SomeStr("upstream message"), ManilaHit),
                     [GeoBody("empty", NoStr, ManilaHit) EXCEPT !.json = "invalid"] } }
    \cup { Response(200, [GeoBody("empty", NoStr, ManilaHit) EXCEPT !.json = j]) :
             j \in {"invalid", "invalid_rex", "list"} }
    \cup { Response(200, GeoBody(h, m, ManilaHit)) :
             h \in {"absent", "empty", "scalar"}, m \in {NoStr, SomeStr("upstream message")} }
    \cup { Response(200, GeoBody("list", NoStr, hit)) : hit \in HitSamples }

Instruction(text, distance) == [text |-> text, distance |-> distance]
NoInstructions == [p |-> FALSE, v |-> <<>>]
Instructions(seq) == [p |-> TRUE, v |-> seq]

Path(distance, time, instructions, points) ==
    [distance |-> distance, time |-> time, instructions |-> instructions,
     points |-> points]
RouteBody(paths, message, path) ==
    [json |-> "dict", paths |-> paths, message |-> message, path |-> path]

HeadNorth == Instruction(SomeStr("Head north"), Num(200))
TurnLeft == Instruction(SomeStr("Turn left"), Num(300))
GoodPath == Path(Num(5000), Num(600000), Instructions(<<HeadNorth>>), "coordinates")

PathSamples ==
    { Path(d, t, GoodPath.instructions, "coordinates") :
        d \in { Absent, Str, Num(-1), Num(0), Num(5000) },
        t \in { Absent, Str, Num(-1), Num(0), Num(600000) } }
    \cup { Path(Num(5000), Num(600000), i, pts) :
             i \in { NoInstructions, Instructions(<<>>), Instructions(<<HeadNorth>>),
                   Instructions(<<HeadNorth, TurnLeft>>),
                   Instructions(<<Instruction(NoStr, Num(100)), TurnLeft>>),
                   Instructions(<<HeadNorth, Instruction(SomeStr("Continue"), Absent), TurnLeft>>) },
             pts \in {"absent", "coordinates"} }

RouteResponses ==
    TransportFailures
    \cup { Response(st, b) : st \in StatusSamples,
             b \in { RouteBody("list", NoStr, GoodPath),
                     RouteBody("empty", SomeStr("upstream message"), GoodPath) } }
    \cup { Response(200, [RouteBody("list", NoStr, GoodPath) EXCEPT !.json = j]) :
             j \in {"invalid", "invalid_rex", "list"} }
    \cup { Response(200, RouteBody(ps, m, GoodPath)) :
             ps \in {"absent", "empty"}, m \in {NoStr, SomeStr("upstream message")} }
    \cup { Response(200, RouteBody("list", NoStr, path)) : path \in PathSamples }

GoodStart == Coord(Num(14), Num(120))
GoodEnd == Coord(Num(15), Num(121))
CoordSamples ==
    { NotADict }
    \cup { Coord(la, Num(120)) : la \in LatSamples }
    \cup { Coord(Num(14), ln) : ln \in LngSamples }
    \cup { Coord(Num(MaxLat), Num(MaxLng)), Coord(Num(MinLat), Num(MinLng)) }

VehicleSamples == valid_vehicles \cup {"Car", "plane", "scooter", ""}

-----------------------------------------------------------------------------
(* The GUI: widgets, the Tk event queue, the worker threads *)

MaxWorkers == 2      \* worker threads alive at once
MaxThreads == 2      \* worker threads started in one session
MaxQueue == 2        \* a click is taken only while fewer callbacks are pending

\* The status bar: its colour, the stage prefix of the text and the message.
Status(color, prefix, message) == [color |-> color, prefix |-> prefix, message |-> message]
NoStatus == Status("", "", NoMsg)

\* A label: the format applied and the value formatted.
Label(fmt, arg) == [fmt |-> fmt, arg |-> arg]
Dash == Label("--", Absent)

NoDirections == [filled |-> FALSE, note |-> "", lines |-> <<>>]
NoRouteData == [set |-> FALSE, start_coords |-> NoPoint, end_coords |-> NoPoint]
ClearedResults ==
    [distance |-> Dash, time |-> Dash, directions |-> NoDirections,
     route_data |-> NoRouteData, map |-> NoRouteData]

\* A callback scheduled with after().
EvStatus(st) == [kind |-> "status", status |-> st, data |-> NoData]
EvDisplay(data) == [kind |-> "display_results", status |-> NoStatus, data |-> data]
EvMap == [kind |-> "update_map", status |-> NoStatus, data |-> NoData]

\* A variant of show_error_message that drops the message it is given.
show_error_message_generic(prefix, message) ==
    EvStatus(Status("red", prefix, Msg("An error occurred.")))

\* fantastic-tour.py: show_error_message / show_warning_message /
\* show_success_message / update_status, each one after(0, ...).
show_error_message(prefix, message) == EvStatus(Status("red", prefix, message))
show_warning_message(message) == EvStatus(Status("orange", "", message))
show_success_message(message) == EvStatus(Status("green", "", message))
update_status(message, color) == EvStatus(Status(color, "", message))
reset_button == [kind |-> "reset_button", status |-> NoStatus, data |-> NoData]

IdleWorker ==
    [pc |-> "none", start_loc |-> EmptyText, dest_loc |-> EmptyText, vehicle |-> "",
     orig |-> NoResult, dest |-> NoResult, route |-> NoResult, gets |-> <<>>,
     answers |-> <<>>]

WorkerIds == 1..MaxWorkers
Free(w) == workers[w].pc = "none"
FreeSlot == CHOOSE w \in WorkerIds : Free(w) /\ \A u \in WorkerIds : Free(u) => w <= u
\* Every thread that has ended has exited.
Exited == \A w \in WorkerIds : workers[w].pc \notin {"done", "crashed"}

\* fantastic-tour.py, FantasticRouterApp.validate_user_input: the message it
\* shows, or ok.
FT_validate_user_input(start_text, end_text) ==
    LET start_loc == Strip(start_text)
        dest_loc == Strip(end_text)
        no(ev) == [ok |-> FALSE, event |-> ev]
    IN IF start_loc = EmptyText
       THEN no(show_error_message("", Msg("Please enter a starting location.")))
       ELSE IF dest_loc = EmptyText
       THEN no(show_error_message("", Msg("Please enter a destination.")))
       ELSE IF TLen(start_loc) < MinLocationLen
       THEN no(show_error_message("", Msg("Starting location must be at least 2 characters long.")))
       ELSE IF TLen(dest_loc) < MinLocationLen
       THEN no(show_error_message("", Msg("Destination must be at least 2 characters long.")))
       ELSE IF TLen(start_loc) > MaxLocationLen
       THEN no(show_error_message("", Msg("Starting location is too long (max 200 characters).")))
       ELSE IF TLen(dest_loc) > MaxLocationLen
       THEN no(show_error_message("", Msg("Destination is too long (max 200 characters).")))
       ELSE IF Lower(start_loc) = Lower(dest_loc)
       THEN no(show_warning_message(Msg("Starting location and destination are the same. Please choose different locations.")))
       ELSE [ok |-> TRUE, event |-> reset_button]

\* fantastic-tour.py, FantasticRouterApp.start_route_calculation (UI thread):
\* a click on the enabled button.
FT_start_route_calculation ==
    /\ app = "ft"
    /\ button = "normal"
    /\ Exited
    /\ Len(tk_queue) < MaxQueue
    /\ LET v == FT_validate_user_input(start_entry, end_entry) IN
       IF ~v.ok
       THEN /\ tk_queue' = Append(tk_queue, v.event)
            /\ UNCHANGED <<button, results, workers, threads>>
       ELSE /\ threads < MaxThreads
            /\ button' = "disabled"
            /\ results' = ClearedResults
            /\ workers' = [workers EXCEPT ![FreeSlot] = [IdleWorker EXCEPT !.pc = "started"]]
            /\ threads' = threads + 1
            /\ UNCHANGED tk_queue
    /\ UNCHANGED <<app, key, last_call, start_entry, end_entry, vehicle_var,
                   is_calculating, status_label, cli>>

\* The upstream answers the route workflows draw from.
WorkflowGeoResponses ==
    { Response(200, GeoBody("empty", NoStr, ManilaHit)),
      Response(200, GeoBody("list", NoStr, ManilaHit)),
      Response(200, GeoBody("list", NoStr,
          Hit(Num(15), Num(121), SomeName(<<"Quezon", " ", "City">>),
              SomeName(<<"NCR">>), SomeName(<<"Philippines">>), SomeStr("city")))),
      Response(200, GeoBody("list", NoStr, [ManilaHit EXCEPT !.lat = Str])) }

WorkflowRouteResponses ==
    { Response(500, RouteBody("empty", NoStr, GoodPath)),
      Response(200, RouteBody("list", NoStr, GoodPath)),
      Response(200, RouteBody("list", NoStr, [GoodPath EXCEPT !.distance = Absent])),
      Response(200, RouteBody("list", NoStr, [GoodPath EXCEPT !.instructions = NoInstructions])),
      Response(200, RouteBody("list", NoStr,
          [GoodPath EXCEPT !.instructions =
              Instructions(<<Instruction(NoStr, Num(100)), TurnLeft>>)])) }

CoordOf(r) == Coord(r.lat, r.lng)

\* fantastic-tour.py, get_route_logic (worker thread), its first lines: the
\* worker reads the entries and the radio button.
FT_get_route_logic_read(w) ==
    /\ app = "ft"
    /\ workers[w].pc = "started"
    /\ workers' = [workers EXCEPT ![w] =
           [@ EXCEPT !.pc = "geo_origin",
                     !.start_loc = Strip(start_entry),
                     !.dest_loc = Strip(end_entry),
                     !.vehicle = vehicle_var]]
    /\ tk_queue' = Append(tk_queue, update_status(Msg("Analyzing origin coordinates..."), "blue"))
    /\ UNCHANGED <<app, key, last_call, threads, start_entry, end_entry, vehicle_var, button,
                   is_calculating, status_label, results, cli>>

\* get_route_logic: geocode the origin.
FT_get_route_logic_origin(w) ==
    /\ app = "ft"
    /\ workers[w].pc = "geo_origin"
    /\ \E resp \in WorkflowGeoResponses :
         LET call == geocode("ft", workers[w].start_loc, key, resp)
             orig == call.ret
             me == [workers[w] EXCEPT !.orig = orig, !.gets = @ \o call.gets,
                                      !.answers = @ \o [i \in DOMAIN call.gets |-> resp]]
         IN IF orig.status = "error"
            THEN /\ workers' = [workers EXCEPT ![w] = [me EXCEPT !.pc = "done"]]
                 /\ tk_queue' = tk_queue \o
                        <<show_error_message("Origin Error: ", orig.message), reset_button>>
            ELSE /\ workers' = [workers EXCEPT ![w] = [me EXCEPT !.pc = "geo_dest"]]
                 /\ tk_queue' = Append(tk_queue,
                        update_status(Msg("Found origin. Analyzing destination..."), "blue"))
    /\ UNCHANGED <<app, key, last_call, threads, start_entry, end_entry, vehicle_var, button,
                   is_calculating, status_label, results, cli>>

\* get_route_logic: geocode the destination, then compare the coordinates.
FT_get_route_logic_destination(w) ==
    /\ app = "ft"
    /\ workers[w].pc = "geo_dest"
    /\ \E resp \in WorkflowGeoResponses :
         LET call == geocode("ft", workers[w].dest_loc, key, resp)
             dest == call.ret
             orig == workers[w].orig
             me == [workers[w] EXCEPT !.dest = dest, !.gets = @ \o call.gets,
                                      !.answers = @ \o [i \in DOMAIN call.gets |-> resp]]
         IN IF dest.status = "error"
            THEN /\ workers' = [workers EXCEPT ![w] = [me EXCEPT !.pc = "done"]]
                 /\ tk_queue' = tk_queue \o
                        <<show_error_message("Destination Error: ", dest.message), reset_button>>
            ELSE IF orig.lat = dest.lat /\ orig.lng = dest.lng
            THEN /\ workers' = [workers EXCEPT ![w] = [me EXCEPT !.pc = "done"]]
                 /\ tk_queue' = tk_queue \o
                        <<show_warning_message(Msg("Origin and destination coordinates are identical. Please choose different locations.")),
                          reset_button>>
            ELSE /\ workers' = [workers EXCEPT ![w] = [me EXCEPT !.pc = "route"]]
                 /\ tk_queue' = Append(tk_queue,
                        update_status(Msg("Found destination. Plotting course... Flame On!"), "blue"))
    /\ UNCHANGED <<app, key, last_call, threads, start_entry, end_entry, vehicle_var, button,
                   is_calculating, status_label, results, cli>>

\* get_route_logic: request the route and hand the data to display_results.
FT_get_route_logic_route(w) ==
    /\ app = "ft"
    /\ workers[w].pc = "route"
    /\ \E resp \in WorkflowRouteResponses :
         LET call == get_route("ft", CoordOf(workers[w].orig), CoordOf(workers[w].dest),
                               workers[w].vehicle, key, resp)
             route_info == call.ret
             me == [workers[w] EXCEPT !.route = route_info, !.gets = @ \o call.gets,
                                      !.answers = @ \o [i \in DOMAIN call.gets |-> resp]]
         IN IF route_info.status = "raise"
            THEN /\ workers' = [workers EXCEPT ![w] = [me EXCEPT !.pc = "crashed"]]
                 /\ UNCHANGED tk_queue
            ELSE IF route_info.status = "error"
            THEN /\ workers' = [workers EXCEPT ![w] = [me EXCEPT !.pc = "done"]]
                 /\ tk_queue' = tk_queue \o
                        <<show_error_message("Routing Error: ", route_info.message), reset_button>>
            ELSE /\ workers' = [workers EXCEPT ![w] = [me EXCEPT !.pc = "done"]]
                 /\ tk_queue' = tk_queue \o
                        <<update_status(Msg("Route calculated! Assembling report..."), "green"),
                          EvDisplay(route_info.data)>>
    /\ UNCHANGED <<app, key, last_call, threads, start_entry, end_entry, vehicle_var, button,
                   is_calculating, status_label, results, cli>>

\* One rendered line of the directions box.
Line(i, text, distance) == [n |-> i, text |-> text, distance |-> distance]

\* display_results: the loop over enumerate(path['instructions'], 1).
RECURSIVE FT_direction_lines(_, _)
FT_direction_lines(instructions, i) ==
    IF i > Len(instructions) THEN <<>>
    ELSE IF ~instructions[i].text.p \/ instructions[i].distance.t = "absent"
    THEN FT_direction_lines(instructions, i + 1)
    ELSE <<Line(i, instructions[i].text.v,
                Label("format_distance", instructions[i].distance))>>
         \o FT_direction_lines(instructions, i + 1)

\* fantastic-tour.py, FantasticRouterApp.display_results (UI thread): the
\* widgets after it and the callbacks it schedules.
FT_display_results(data, shown) ==
    LET fail(m) == [results |-> shown,
                    events |-> <<show_error_message("", Msg(m)), reset_button>>]
        path == data.path
    IN IF data.json # "dict" \/ data.paths \in {"absent", "empty"}
       THEN fail("Invalid route data received.")
       ELSE IF path.distance.t = "absent" \/ path.time.t = "absent"
       THEN fail("Incomplete route data received.")
       ELSE IF path.distance.t # "num" \/ path.distance.n < 0
       THEN fail("Invalid distance value in route data.")
       ELSE IF path.time.t # "num" \/ path.time.n < 0
       THEN fail("Invalid time value in route data.")
       ELSE [results |->
                [shown EXCEPT
                   !.distance = Label("format_distance", path.distance),
                   !.time = Label("format_time", path.time),
                   !.directions =
                       IF ~path.instructions.p \/ path.instructions.v = <<>>
                       THEN [filled |-> TRUE,
                             note |-> "No turn-by-turn instructions available for this route.",
                             lines |-> <<>>]
                       ELSE [filled |-> TRUE, note |-> "",
                             lines |-> FT_direction_lines(path.instructions.v, 1)]],
             events |-> <<reset_button,
                          show_success_message(Msg("Mission accomplished! Route briefing ready."))>>]

\* fantasticTour.py, FantasticRouterApp.start_route_calculation (UI thread):
\* a click on the enabled button.
Tour_start_route_calculation ==
    /\ app = "tour"
    /\ button = "normal"
    /\ Exited
    /\ Len(tk_queue) < MaxQueue
    /\ IF is_calculating
       THEN UNCHANGED <<workers, threads>>
       ELSE /\ threads < MaxThreads
            /\ \E w \in WorkerIds : Free(w)
            /\ workers' = [workers EXCEPT ![FreeSlot] = [IdleWorker EXCEPT !.pc = "started"]]
            /\ threads' = threads + 1
    /\ UNCHANGED <<app, key, last_call, start_entry, end_entry, vehicle_var, button,
                   is_calculating, status_label, results, tk_queue, cli>>

Tour_error_status(message) == Status("", "Error: ", message)

\* fantasticTour.py, calculate_route (worker thread), up to the first geocode.
Tour_calculate_route_begin(w) ==
    /\ app = "tour"
    /\ workers[w].pc = "started"
    /\ is_calculating' = TRUE
    /\ status_label' = Status("", "", Msg("Calculating optimal route..."))
    /\ button' = "disabled"
    /\ workers' = [workers EXCEPT ![w] =
           [@ EXCEPT !.pc = "geo_origin", !.start_loc = start_entry,
                     !.dest_loc = end_entry, !.vehicle = vehicle_var]]
    /\ UNCHANGED <<app, key, last_call, threads, start_entry, end_entry, vehicle_var, results,
                   tk_queue, cli>>

\* calculate_route: geocode the origin.
Tour_calculate_route_origin(w) ==
    /\ app = "tour"
    /\ workers[w].pc = "geo_origin"
    /\ \E resp \in WorkflowGeoResponses :
         LET call == geocode("tour", workers[w].start_loc, key, resp)
             start_data == call.ret
             me == [workers[w] EXCEPT !.orig = start_data, !.gets = @ \o call.gets,
                                      !.answers = @ \o [i \in DOMAIN call.gets |-> resp]]
         IN IF start_data.status = "error"
            THEN /\ workers' = [workers EXCEPT ![w] = [me EXCEPT !.pc = "done"]]
                 /\ is_calculating' = FALSE
                 /\ status_label' = Tour_error_status(start_data.message)
                 /\ button' = "normal"
            ELSE /\ workers' = [workers EXCEPT ![w] = [me EXCEPT !.pc = "geo_dest"]]
                 /\ UNCHANGED <<is_calculating, status_label, button>>
    /\ UNCHANGED <<app, key, last_call, threads, start_entry, end_entry, vehicle_var, results,
                   tk_queue, cli>>

\* calculate_route: geocode the destination.
Tour_calculate_route_destination(w) ==
    /\ app = "tour"
    /\ workers[w].pc = "geo_dest"
    /\ \E resp \in WorkflowGeoResponses :
         LET call == geocode("tour", workers[w].dest_loc, key, resp)
             end_data == call.ret
             me == [workers[w] EXCEPT !.dest = end_data, !.gets = @ \o call.gets,
                                      !.answers = @ \o [i \in DOMAIN call.gets |-> resp]]
         IN IF end_data.status = "error"
            THEN /\ workers' = [workers EXCEPT ![w] = [me EXCEPT !.pc = "done"]]
                 /\ is_calculating' = FALSE
                 /\ status_label' = Tour_error_status(end_data.message)
                 /\ button' = "normal"
            ELSE /\ workers' = [workers EXCEPT ![w] = [me EXCEPT !.pc = "route"]]
                 /\ UNCHANGED <<is_calculating, status_label, button>>
    /\ UNCHANGED <<app, key, last_call, threads, start_entry, end_entry, vehicle_var, results,
                   tk_queue, cli>>

MAP_AVAILABLE == TRUE   \* tkintermapview is installed

\* calculate_route: the loop over enumerate(instructions, 1); "raise" when an
\* entry has no text (KeyError).
Tour_direction_lines(instructions) ==
    IF \E i \in DOMAIN instructions : ~instructions[i].text.p
    THEN [raise |-> TRUE, lines |-> <<>>]
    ELSE [raise |-> FALSE,
          lines |-> [i \in DOMAIN instructions |->
                        Line(i, instructions[i].text.v, Absent)]]

\* calculate_route after a successful get_route: what the worker leaves behind.
\* crashed tells that an exception ended the thread part-way.
Tour_show_route(me, shown) ==
    LET path == me.route.data.path
        route_data == [set |-> TRUE,
                       start_coords |-> [lat |-> me.orig.lat, lng |-> me.orig.lng],
                       end_coords |-> [lat |-> me.dest.lat, lng |-> me.dest.lng]]
        labelled == [shown EXCEPT !.route_data = route_data,
                                  !.distance = Label("km", path.distance),
                                  !.time = Label("min", path.time)]
        lines == Tour_direction_lines(path.instructions.v)
    IN IF path.distance.t # "num" \/ path.time.t # "num" \/ ~path.instructions.p
       THEN [crashed |-> TRUE, results |-> shown, events |-> <<>>]
       ELSE IF lines.raise
       THEN [crashed |-> TRUE, results |-> labelled,
             events |-> IF MAP_AVAILABLE THEN <<EvMap>> ELSE <<>>]
       ELSE [crashed |-> FALSE,
             results |-> [labelled EXCEPT !.directions =
                             [filled |-> TRUE, note |-> "", lines |-> lines.lines]],
             events |-> IF MAP_AVAILABLE THEN <<EvMap>> ELSE <<>>]

\* calculate_route: request the route and show it.
Tour_calculate_route_route(w) ==
    /\ app = "tour"
    /\ workers[w].pc = "route"
    /\ \E resp \in WorkflowRouteResponses :
         LET call == get_route("tour", CoordOf(workers[w].orig), CoordOf(workers[w].dest),
                               workers[w].vehicle, key, resp)
             route_data == call.ret
             me == [workers[w] EXCEPT !.route = route_data, !.gets = @ \o call.gets,
                                      !.answers = @ \o [i \in DOMAIN call.gets |-> resp]]
             shown == Tour_show_route(me, results)
         IN IF route_data.status = "raise"
            THEN /\ workers' = [workers EXCEPT ![w] = [me EXCEPT !.pc = "crashed"]]
                 /\ UNCHANGED <<is_calculating, status_label, button, results, tk_queue>>
            ELSE IF route_data.status = "error"
            THEN /\ workers' = [workers EXCEPT ![w] = [me EXCEPT !.pc = "done"]]
                 /\ is_calculating' = FALSE
                 /\ status_label' = Tour_error_status(route_data.message)
                 /\ button' = "normal"
                 /\ UNCHANGED <<results, tk_queue>>
            ELSE IF shown.crashed
            THEN /\ workers' = [workers EXCEPT ![w] = [me EXCEPT !.pc = "crashed"]]
                 /\ results' = shown.results
                 /\ tk_queue' = tk_queue \o shown.events
                 /\ UNCHANGED <<is_calculating, status_label, button>>
            ELSE /\ workers' = [workers EXCEPT ![w] = [me EXCEPT !.pc = "done"]]
                 /\ results' = shown.results
                 /\ tk_queue' = tk_queue \o shown.events
                 /\ status_label' = Status("", "", Msg("Route calculated!"))
                 /\ button' = "normal"
                 /\ is_calculating' = FALSE
    /\ UNCHANGED <<app, key, last_call, threads, start_entry, end_entry, vehicle_var, cli>>

\* The Tk event loop (UI thread) runs the oldest pending callback.
TkRunCallback ==
    /\ app \in {"ft", "tour"}
    /\ tk_queue # <<>>
    /\ LET ev == Head(tk_queue) IN
       CASE ev.kind = "status" ->
              /\ status_label' = ev.status
              /\ tk_queue' = Tail(tk_queue)
              /\ UNCHANGED <<button, results>>
         [] ev.kind = "reset_button" ->
              /\ button' = "normal"
              /\ tk_queue' = Tail(tk_queue)
              /\ UNCHANGED <<status_label, results>>
         [] ev.kind = "display_results" ->
              /\ results' = FT_display_results(ev.data, results).results
              /\ tk_queue' = Tail(tk_queue) \o FT_display_results(ev.data, results).events
              /\ UNCHANGED <<status_label, button>>
         [] ev.kind = "update_map" ->
              /\ results' = [results EXCEPT !.map = results.route_data]
              /\ tk_queue' = Tail(tk_queue)
              /\ UNCHANGED <<status_label, button>>
    /\ UNCHANGED <<app, key, last_call, threads, start_entry, end_entry, vehicle_var,
                   is_calculating, workers, cli>>

\* A worker thread whose target has returned, or was ended by an exception,
\* exits: its locals are gone.
ThreadExit(w) ==
    /\ app \in {"ft", "tour"}
    /\ workers[w].pc \in {"done", "crashed"}
    /\ workers' = [workers EXCEPT ![w] = IdleWorker]
    /\ UNCHANGED <<app, key, last_call, threads, start_entry, end_entry, vehicle_var, button,
                   is_calculating, status_label, results, tk_queue, cli>>

\* The user edits an entry or picks a radio button.  An edit shows only when
\* the entries are read next, by a click or by a worker that has not begun;
\* the user types while no worker has begun running.
EditShows ==
    /\ \A w \in WorkerIds : workers[w].pc \in {"none", "started"}
    /\ button = "normal" \/ \E w \in WorkerIds : workers[w].pc = "started"

EntrySamples == { EmptyText, <<R("a", 1), R(";", 1), R("b", 1)>>, Manila, Cebu }

UserTypesStart(t) ==
    /\ app \in {"ft", "tour"}
    /\ EditShows
    /\ start_entry' = t
    /\ UNCHANGED <<app, key, last_call, threads, end_entry, vehicle_var, button, is_calculating,
                   status_label, results, tk_queue, workers, cli>>

UserTypesDestination(t) ==
    /\ app \in {"ft", "tour"}
    /\ EditShows
    /\ end_entry' = t
    /\ UNCHANGED <<app, key, last_call, threads, start_entry, vehicle_var, button, is_calculating,
                   status_label, results, tk_queue, workers, cli>>

UserSelectsVehicle(v) ==
    /\ app \in {"ft", "tour"}
    /\ EditShows
    /\ vehicle_var' = v
    /\ UNCHANGED <<app, key, last_call, threads, start_entry, end_entry, button, is_calculating,
                   status_label, results, tk_queue, workers, cli>>

-----------------------------------------------------------------------------
(* The command-line planner, graphhopper_parse-json_7.py *)

CliKey == KeyStr(Txt(<<"5", "6", "0", "e">>))   \* the key written in __init__

vehicle_profiles == <<"car", "bike", "foot">>
ProfileText(v) ==
    CASE v = "car"  -> Txt(<<"c", "a", "r">>)
      [] v = "bike" -> Txt(<<"b", "i", "k", "e">>)
      [] v = "foot" -> Txt(<<"f", "o", "o", "t">>)

QuitWords == { Txt(<<"q", "u", "i", "t">>), Txt(<<"q">>), Txt(<<"e", "x", "i", "t">>) }
NoWords == { Txt(<<"n", "o">>), Txt(<<"n">>) }

\* A variant that compares the answer with the quit words as typed.
get_user_input_case_sensitive(typed, allow_quit) ==
    IF allow_quit /\ Strip(typed) \in QuitWords
    THEN [quit |-> TRUE, text |-> EmptyText]
    ELSE [quit |-> FALSE, text |-> Strip(typed)]

\* get_user_input: quit is the None it returns.
get_user_input(typed, allow_quit) ==
    IF allow_quit /\ Lower(Strip(typed)) \in QuitWords
    THEN [quit |-> TRUE, text |-> EmptyText]
    ELSE [quit |-> FALSE, text |-> Strip(typed)]

NoOutput == [summary |-> FALSE, distance |-> Dash, time |-> Dash, same_warning |-> FALSE,
             table |-> FALSE, lines |-> <<>>, error |-> NoMsg]
CliIdle ==
    [pc |-> "unit", unit_system |-> "metric", vehicle_input |-> EmptyText,
     vehicle |-> "", orig |-> NoResult,
     dest |-> NoResult, gets |-> <<>>, answers |-> <<>>, out |-> NoOutput]

\* display_route_summary: what it prints, or the exception it raises.
Cli_display_route_summary(body) ==
    IF body.json # "dict" THEN [raise |-> "TypeError", out |-> NoOutput]
    ELSE IF body.paths = "absent" THEN [raise |-> "KeyError", out |-> NoOutput]
    ELSE IF body.paths = "empty" THEN [raise |-> "IndexError", out |-> NoOutput]
    ELSE IF body.path.distance.t = "absent" THEN [raise |-> "KeyError", out |-> NoOutput]
    ELSE IF body.path.distance = Num(0)
    THEN [raise |-> "", out |-> [NoOutput EXCEPT !.same_warning = TRUE]]
    ELSE IF body.path.time.t = "absent" THEN [raise |-> "KeyError", out |-> NoOutput]
    ELSE IF body.path.distance.t # "num" \/ body.path.time.t # "num"
    THEN [raise |-> "TypeError", out |-> NoOutput]
    ELSE [raise |-> "",
          out |-> [NoOutput EXCEPT !.summary = TRUE,
                                   !.distance = Label("format_distance", body.path.distance),
                                   !.time = Label("format_time", body.path.time)]]

\* display_detailed_directions: the rows printed before the loop ends or raises.
RECURSIVE Cli_direction_rows(_, _)
Cli_direction_rows(instructions, i) ==
    IF i > Len(instructions) THEN [raise |-> "", lines |-> <<>>]
    ELSE IF ~instructions[i].text.p \/ instructions[i].distance.t = "absent"
    THEN [raise |-> "KeyError", lines |-> <<>>]
    ELSE IF instructions[i].distance.t # "num"
    THEN [raise |-> "TypeError", lines |-> <<>>]
    ELSE LET rest == Cli_direction_rows(instructions, i + 1) IN
         [raise |-> rest.raise,
          lines |-> <<Line(i, instructions[i].text.v,
                           Label("format_distance", instructions[i].distance))>>
                    \o rest.lines]

Cli_display_detailed_directions(body, out) ==
    IF ~body.path.instructions.p THEN [raise |-> "KeyError", out |-> out]
    ELSE LET rows == Cli_direction_rows(body.path.instructions.v, 1) IN
         [raise |-> rows.raise, out |-> [out EXCEPT !.table = TRUE, !.lines = rows.lines]]

\* main_flow, the try block around the routing request: what is printed.
Cli_route_output(resp) ==
    LET unexpected(e, out) == [out EXCEPT !.error = MsgExc("Unexpected error: ", e)]
        summary == Cli_display_route_summary(resp.body)
        directions == Cli_display_detailed_directions(resp.body, summary.out)
    IN IF resp.kind = "timeout"
       THEN [NoOutput EXCEPT !.error = Msg("Request timeout. Please check your connection and try again.")]
       ELSE IF resp.kind \in {"connection_error", "request_exception"}
       THEN [NoOutput EXCEPT !.error = MsgExc("Network error: ", resp.kind)]
       ELSE IF resp.body.json = "invalid_rex"
       THEN [NoOutput EXCEPT !.error = MsgExc("Network error: ", "JSONDecodeError")]
       ELSE IF resp.body.json = "invalid"
       THEN unexpected("JSONDecodeError", NoOutput)
       ELSE IF resp.status # 200
       THEN IF resp.body.json # "dict"
            THEN unexpected("AttributeError", NoOutput)
            ELSE [NoOutput EXCEPT !.error =
                     MsgCode(IF resp.body.message.p THEN resp.body.message.v
                             ELSE "Unknown routing error", resp.status)]
       ELSE IF summary.raise # ""
       THEN unexpected(summary.raise, summary.out)
       ELSE IF directions.raise # ""
       THEN unexpected(directions.raise, directions.out)
       ELSE directions.out

CliUnitChoices == { Txt(<<"1">>), Txt(<<"2">>), Txt(<<"3">>) }
CliVehicleInputs ==
    { ProfileText("car"), Txt(<<"B", "i", "k", "e">>), Txt(<<"p", "l", "a", "n", "e">>),
      EmptyText, Txt(<<"q", "u", "i", "t">>), Txt(<<"Q">>) }
CliLocationInputs ==
    { Manila, Cebu, EmptyText, Txt(<<"e", "x", "i", "t">>), Txt(<<" ", "Q", "U", "I", "T">>),
      Txt(<<"X">>), Txt(<<"Y">>) }
CliAgainInputs == { Txt(<<"y", "e", "s">>), Txt(<<"N", "O">>), Txt(<<"n">>), EmptyText,
                    Txt(<<"q", "u", "i", "t">>) }

\* get_unit_preference: one pass of its loop.
Cli_get_unit_preference(typed) ==
    /\ app = "cli"
    /\ cli.pc = "unit"
    /\ cli' = IF Strip(typed) = Txt(<<"1">>)
              THEN [cli EXCEPT !.unit_system = "metric", !.pc = "vehicle"]
              ELSE IF Strip(typed) = Txt(<<"2">>)
              THEN [cli EXCEPT !.unit_system = "imperial", !.pc = "vehicle"]
              ELSE cli
    /\ UNCHANGED <<app, key, last_call, guiVars>>

\* main_flow: the vehicle prompt, the start of one pass of the loop.
Cli_vehicle_selection(typed) ==
    /\ app = "cli"
    /\ cli.pc = "vehicle"
    /\ LET vehicle_input == get_user_input(typed, TRUE)
           fresh == [CliIdle EXCEPT !.unit_system = cli.unit_system]
       IN cli' = IF vehicle_input.quit
                 THEN [fresh EXCEPT !.pc = "exit"]
                 ELSE [fresh EXCEPT
                         !.pc = "start",
                         !.vehicle_input = vehicle_input.text,
                         !.vehicle =
                            IF \E i \in DOMAIN vehicle_profiles :
                                 ProfileText(vehicle_profiles[i]) = Lower(vehicle_input.text)
                            THEN vehicle_profiles[CHOOSE i \in DOMAIN vehicle_profiles :
                                 ProfileText(vehicle_profiles[i]) = Lower(vehicle_input.text)]
                            ELSE "car"]
    /\ UNCHANGED <<app, key, last_call, guiVars>>

\* main_flow: the starting-location prompt and the geocoding of the answer.
Cli_starting_location(typed) ==
    /\ app = "cli"
    /\ cli.pc = "start"
    /\ LET start_loc == get_user_input(typed, TRUE) IN
       IF start_loc.quit
       THEN cli' = [cli EXCEPT !.pc = "exit"]
       ELSE \E resp \in WorkflowGeoResponses :
              LET call == geocode("cli", start_loc.text, key, resp) IN
              cli' = [cli EXCEPT !.orig = call.ret, !.gets = @ \o call.gets,
                                 !.answers = @ \o [i \in DOMAIN call.gets |-> resp],
                                 !.pc = IF call.ret.status = "error" THEN "vehicle"
                                        ELSE "dest"]
    /\ UNCHANGED <<app, key, last_call, guiVars>>

\* main_flow: the destination prompt, its geocoding, the routing request and
\* the display of the answer.
Cli_destination(typed) ==
    /\ app = "cli"
    /\ cli.pc = "dest"
    /\ LET dest_loc == get_user_input(typed, TRUE) IN
       IF dest_loc.quit
       THEN cli' = [cli EXCEPT !.pc = "exit"]
       ELSE \E resp \in WorkflowGeoResponses :
              LET call == geocode("cli", dest_loc.text, key, resp) IN
              IF call.ret.status = "error"
              THEN cli' = [cli EXCEPT !.dest = call.ret, !.gets = @ \o call.gets,
                                      !.answers = @ \o [i \in DOMAIN call.gets |-> resp],
                                      !.pc = "vehicle"]
              ELSE \E route_resp \in WorkflowRouteResponses :
                     cli' = [cli EXCEPT
                               !.dest = call.ret,
                               !.gets = @ \o call.gets
                                   \o <<RouteUrl(cli.orig, call.ret, cli.vehicle, key)>>,
                               !.answers = @ \o <<resp, route_resp>>,
                               !.out = Cli_route_output(route_resp),
                               !.pc = "again"]
    /\ UNCHANGED <<app, key, last_call, guiVars>>

\* main_flow: "Plan another route?"
Cli_plan_another(typed) ==
    /\ app = "cli"
    /\ cli.pc = "again"
    /\ LET continue_choice == get_user_input(typed, FALSE) IN
       cli' = IF continue_choice.text # EmptyText /\ Lower(continue_choice.text) \in NoWords
              THEN [cli EXCEPT !.pc = "exit"]
              ELSE [cli EXCEPT !.pc = "vehicle"]
    /\ UNCHANGED <<app, key, last_call, guiVars>>

-----------------------------------------------------------------------------
(* The link to Google Maps *)

NoUrl == [kind |-> "none", origin |-> <<>>, destination |-> <<>>, travelmode |-> ""]

\* fantasticTour.py: RouteAPI.get_google_maps_url.  The coordinates are read
\* by subscript and written as they are, latitude before longitude; the URL
\* is kept as its three parameters.
\* A variant in which an unlisted vehicle is sent walking.
get_google_maps_url_other_walking(start_coords, end_coords, vehicle) ==
    IF start_coords.t # "dict" THEN [NoUrl EXCEPT !.kind = "TypeError"]
    ELSE IF start_coords.lat.t = "absent" \/ start_coords.lng.t = "absent"
    THEN [NoUrl EXCEPT !.kind = "KeyError"]
    ELSE IF end_coords.t # "dict" THEN [NoUrl EXCEPT !.kind = "TypeError"]
    ELSE IF end_coords.lat.t = "absent" \/ end_coords.lng.t = "absent"
    THEN [NoUrl EXCEPT !.kind = "KeyError"]
    ELSE [kind |-> "url",
          origin |-> <<start_coords.lat, start_coords.lng>>,
          destination |-> <<end_coords.lat, end_coords.lng>>,
          travelmode |-> CASE vehicle = "car" -> "driving"
                           [] vehicle = "bike" -> "bicycling"
                           [] OTHER -> "walking"]

get_google_maps_url(start_coords, end_coords, vehicle) ==
    IF start_coords.t # "dict" THEN [NoUrl EXCEPT !.kind = "TypeError"]
    ELSE IF start_coords.lat.t = "absent" \/ start_coords.lng.t = "absent"
    THEN [NoUrl EXCEPT !.kind = "KeyError"]
    ELSE IF end_coords.t # "dict" THEN [NoUrl EXCEPT !.kind = "TypeError"]
    ELSE IF end_coords.lat.t = "absent" \/ end_coords.lng.t = "absent"
    THEN [NoUrl EXCEPT !.kind = "KeyError"]
    ELSE [kind |-> "url",
          origin |-> <<start_coords.lat, start_coords.lng>>,
          destination |-> <<end_coords.lat, end_coords.lng>>,
          travelmode |-> CASE vehicle = "car" -> "driving"
                           [] vehicle = "bike" -> "bicycling"
                           [] vehicle = "foot" -> "walking"
                           [] OTHER -> "driving"]

-----------------------------------------------------------------------------
(* Formatting of distances and durations *)

\* A formatted text is a sequence of fields, each a number followed by its
\* unit: "1.5 km" is one field (whole 1, decimals <<5>>, unit " km"), "1h 01m"
\* is two (whole 1, unit "h "; one padding zero, whole 1, unit "m").  The
\* number to format is a JSON number; a distance counts hundredths of a metre,
\* so that 1609.34 m is Num(160934), and a duration counts milliseconds.  A
\* text of another kind has no fields: the message returned for an argument
\* that is refused, or the exception raised.

\* f"{num/den:.<places>f}<unit>": the quotient rounded to `places` decimals,
\* a quotient exactly on a half going to the even neighbour, as the format
\* does when the half is exact in binary (999.5, 1.25); the samples hold no
\* half that is inexact in binary.  A negative quotient keeps its sign.
Fixed(num, den, places, unit) ==
    LET scale == IF places = 0 THEN 1 ELSE IF places = 1 THEN 10 ELSE 100
        mag == (IF num < 0 THEN 0 - num ELSE num) * scale
        q == mag \div den
        r == mag % den
        n == IF 2 * r > den \/ (2 * r = den /\ q % 2 = 1) THEN q + 1 ELSE q
    IN  [neg |-> num < 0, zeros |-> 0, whole |-> n \div scale,
         frac |-> IF places = 0 THEN <<>>
                  ELSE IF places = 1 THEN <<n % 10>>
                  ELSE <<(n % scale) \div 10, n % 10>>,
         unit |-> unit]

\* fantastic-tour.py: format_distance, under the unit system of unit_var.
FT_format_distance(unit, meters) ==
    IF meters.t # "num" \/ meters.n < 0 THEN [kind |-> "Invalid distance", fields |-> <<>>]
    ELSE IF unit = "metric"
    THEN IF meters.n >= 1000 * 100
         THEN [kind |-> "text", fields |-> <<Fixed(meters.n, 1000 * 100, 2, " km")>>]
         ELSE [kind |-> "text", fields |-> <<Fixed(meters.n, 100, 0, " m")>>]
    ELSE \* miles = meters / 1609.34
         IF 10 * meters.n >= 160934
         THEN [kind |-> "text", fields |-> <<Fixed(meters.n, 160934, 2, " miles")>>]
         ELSE \* meters * 3.28084 = hundredths * 82021 / 2500000
              [kind |-> "text", fields |-> <<Fixed(meters.n * 82021, 2500000, 0, " ft")>>]

\* graphhopper_parse-json_7.py: format_distance, under unit_system.  Nothing
\* checks the argument: a text or None fails in the comparison.
Cli_format_distance(unit, meters) ==
    IF meters.t # "num" THEN [kind |-> "TypeError", fields |-> <<>>]
    ELSE IF unit = "metric"
    THEN IF meters.n >= 1000 * 100
         THEN [kind |-> "text", fields |-> <<Fixed(meters.n, 1000 * 100, 1, " km")>>]
         ELSE [kind |-> "text", fields |-> <<Fixed(meters.n, 100, 0, " m")>>]
    ELSE IF 10 * meters.n >= 160934
         THEN [kind |-> "text", fields |-> <<Fixed(meters.n, 160934, 1, " miles")>>]
         ELSE [kind |-> "text", fields |-> <<Fixed(meters.n * 82021, 2500000, 0, " ft")>>]

\* fantasticTour.py has no formatting function and no unit system:
\* calculate_route divides the distance by 1000 and writes it with two
\* decimals, whatever its size.
Tour_distance_label(meters) ==
    IF meters.t # "num" THEN [kind |-> "TypeError", fields |-> <<>>]
    ELSE [kind |-> "text", fields |-> <<Fixed(meters.n, 1000 * 100, 2, " km")>>]

\* fantastic-tour.py: format_time.  int() drops the fraction of a second.
FT_format_time(milliseconds) ==
    IF milliseconds.t # "num" \/ milliseconds.n < 0 THEN [kind |-> "Invalid time", fields |-> <<>>]
    ELSE LET h == milliseconds.n \div 3600000
             m == (milliseconds.n % 3600000) \div 60000
             s == (milliseconds.n % 60000) \div 1000
             two(n, unit) == [Fixed(n, 1, 0, unit) EXCEPT !.zeros = IF n < 10 THEN 1 ELSE 0]
         IN  IF h > 0 THEN [kind |-> "text", fields |-> <<Fixed(h, 1, 0, "h "), two(m, "m")>>]
             ELSE [kind |-> "text", fields |-> <<Fixed(m, 1, 0, "m "), two(s, "s")>>]

\* graphhopper_parse-json_7.py: format_time.  Floor division and modulo, so a
\* negative duration is not refused.
Cli_format_time(milliseconds) ==
    IF milliseconds.t # "num" THEN [kind |-> "TypeError", fields |-> <<>>]
    ELSE LET hours == milliseconds.n \div 3600000
             minutes == (milliseconds.n % 3600000) \div 60000
             seconds == (milliseconds.n % 60000) \div 1000
             two(n, unit) == [Fixed(n, 1, 0, unit) EXCEPT !.zeros = IF n < 10 THEN 1 ELSE 0]
         IN  IF hours > 0
             THEN [kind |-> "text", fields |-> <<Fixed(hours, 1, 0, "h "), two(minutes, "m "), two(seconds, "s")>>]
             ELSE IF minutes > 0
             THEN [kind |-> "text", fields |-> <<Fixed(minutes, 1, 0, "m "), two(seconds, "s")>>]
             ELSE [kind |-> "text", fields |-> <<Fixed(seconds, 1, 0, "s")>>]

-----------------------------------------------------------------------------
(* Specifications *)

NoResp == [kind |-> "none", status |-> 0, body |-> NoData]
NoCall ==
    [fn |-> "none", location |-> EmptyText, start_coords |-> NotADict,
     end_coords |-> NotADict, vehicle |-> "", resp |-> NoResp, ret |-> NoResult,
     gets |-> <<>>, unit |-> "", value |-> Absent, text |-> [kind |-> "none", fields |-> <<>>], url |-> NoUrl]

\* The widgets as __init__ builds them, no thread started, nothing typed.
GuiInit ==
    /\ start_entry = EmptyText
    /\ end_entry = EmptyText
    /\ vehicle_var = "car"
    /\ button = "normal"
    /\ is_calculating = FALSE
    /\ status_label = Status("", "", Msg(IF app = "ft" THEN "Ready for mission planning..."
                                         ELSE "Ready to calculate routes"))
    /\ results = ClearedResults
    /\ tk_queue = <<>>
    /\ workers = [w \in WorkerIds |-> IdleWorker]
    /\ threads = 0

\* The three programs, each with the key its environment gives it.
Init ==
    /\ app \in {"ft", "tour", "cli"}
    /\ key \in IF app = "cli" THEN {CliKey} ELSE {ValidKey, KeyNone}
    /\ last_call = NoCall
    /\ GuiInit
    /\ cli = CliIdle

Next ==
    \/ FT_start_route_calculation
    \/ \E w \in WorkerIds : FT_get_route_logic_read(w)
    \/ \E w \in WorkerIds : FT_get_route_logic_origin(w)
    \/ \E w \in WorkerIds : FT_get_route_logic_destination(w)
    \/ \E w \in WorkerIds : FT_get_route_logic_route(w)
    \/ Tour_start_route_calculation
    \/ \E w \in WorkerIds : Tour_calculate_route_begin(w)
    \/ \E w \in WorkerIds : Tour_calculate_route_origin(w)
    \/ \E w \in WorkerIds : Tour_calculate_route_destination(w)
    \/ \E w \in WorkerIds : Tour_calculate_route_route(w)
    \/ \E w \in WorkerIds : ThreadExit(w)
    \/ TkRunCallback
    \/ \E t \in EntrySamples : UserTypesStart(t)
    \/ \E t \in EntrySamples : UserTypesDestination(t)
    \/ \E v \in valid_vehicles : UserSelectsVehicle(v)
    \/ \E t \in CliUnitChoices : Cli_get_unit_preference(t)
    \/ \E t \in CliVehicleInputs : Cli_vehicle_selection(t)
    \/ \E t \in CliLocationInputs : Cli_starting_location(t)
    \/ \E t \in CliLocationInputs : Cli_destination(t)
    \/ \E t \in CliAgainInputs : Cli_plan_another(t)

Spec == Init /\ [][Next]_vars

\* Direct calls of the API functions, as test.py makes them: one call, with
\* the key set beforehand and the upstream answer stubbed.  In the argument
\* lists one argument ranges over its samples while the others are held at a
\* good value.
InitAPI ==
    /\ app \in {"ft", "tour", "cli"}
    /\ key \in IF app = "cli" THEN {CliKey} ELSE KeySamples
    /\ last_call = NoCall
    /\ GuiInit
    /\ cli = CliIdle

Call_geocode(c) ==
    /\ last_call.fn = "none"
    /\ LET call == geocode(app, c.location, key, c.resp) IN
       last_call' = [NoCall EXCEPT !.fn = "geocode", !.location = c.location,
                                   !.resp = c.resp, !.ret = call.ret, !.gets = call.gets]
    /\ UNCHANGED <<app, key, guiVars, cli>>

Call_get_route(c) ==
    /\ last_call.fn = "none"
    /\ app \in {"ft", "tour"}
    /\ LET call == get_route(app, c.start_coords, c.end_coords, c.vehicle, key, c.resp) IN
       last_call' = [NoCall EXCEPT !.fn = "get_route", !.start_coords = c.start_coords,
                                   !.end_coords = c.end_coords, !.vehicle = c.vehicle,
                                   !.resp = c.resp, !.ret = call.ret, !.gets = call.gets]
    /\ UNCHANGED <<app, key, guiVars, cli>>

\* test.py calls the validators of RouteAPI directly as well.
Call_validate_location_input(location) ==
    /\ last_call.fn = "none"
    /\ app \in {"ft", "tour"}
    /\ last_call' = [NoCall EXCEPT !.fn = "validate_location_input",
                                   !.location = location,
                                   !.ret = validate_location_input(location)]
    /\ UNCHANGED <<app, key, guiVars, cli>>

Call_validate_vehicle_type(vehicle) ==
    /\ last_call.fn = "none"
    /\ app \in {"ft", "tour"}
    /\ last_call' = [NoCall EXCEPT !.fn = "validate_vehicle_type",
                                   !.vehicle = vehicle,
                                   !.ret = validate_vehicle_type(vehicle)]
    /\ UNCHANGED <<app, key, guiVars, cli>>

Call_validate_api_key ==
    /\ last_call.fn = "none"
    /\ app \in {"ft", "tour"}
    /\ last_call' = [NoCall EXCEPT !.fn = "validate_api_key",
                                   !.ret = validate_api_key(key)]
    /\ UNCHANGED <<app, key, guiVars, cli>>

Call_get_google_maps_url(start_coords, end_coords, vehicle) ==
    /\ last_call.fn = "none"
    /\ app = "tour"
    /\ last_call' = [NoCall EXCEPT !.fn = "get_google_maps_url",
                                   !.start_coords = start_coords,
                                   !.end_coords = end_coords, !.vehicle = vehicle,
                                   !.url = get_google_maps_url(start_coords, end_coords,
                                                               vehicle)]
    /\ UNCHANGED <<app, key, guiVars, cli>>

\* A direct call of the distance formatting of the program, the unit system
\* being what the user chose (fantasticTour.py offers none and is metric).
\* Distances are in hundredths of a metre, durations in milliseconds.
Call_format_distance(unit, meters) ==
    /\ last_call.fn = "none"
    /\ app = "tour" => unit = "metric"
    /\ last_call' = [NoCall EXCEPT !.fn = "format_distance", !.unit = unit,
                                   !.value = meters,
                                   !.text = CASE app = "ft" -> FT_format_distance(unit, meters)
                                              [] app = "cli" -> Cli_format_distance(unit, meters)
                                              [] app = "tour" -> Tour_distance_label(meters)]
    /\ UNCHANGED <<app, key, guiVars, cli>>

Call_format_time(milliseconds) ==
    /\ last_call.fn = "none"
    /\ app \in {"ft", "cli"}
    /\ last_call' = [NoCall EXCEPT !.fn = "format_time", !.value = milliseconds,
                                   !.text = IF app = "ft" THEN FT_format_time(milliseconds)
                                            ELSE Cli_format_time(milliseconds)]
    /\ UNCHANGED <<app, key, guiVars, cli>>

NextAPI ==
    \/ Call_validate_api_key
    \/ \E u \in {"metric", "imperial"},
          d \in {Absent, Str}
                 \cup { Num(h) : h \in {-100, 0, 40, 50, 50000, 99900, 99950, 100000,
                                        125000, 150000, 160934, 16000, 16094, 1234600} } :
          Call_format_distance(u, d)
    \/ \E t \in {Absent, Str}
                 \cup { Num(ms) : ms \in {-1, 0, 999, 1000, 59999, 60000, 61000, 3599999,
                                          3600000, 3661000, 36000000, 86399000, 90061000} } :
          Call_format_time(t)
    \/ \E l \in LocationSamples : Call_validate_location_input(l)
    \/ \E v \in VehicleSamples : Call_validate_vehicle_type(v)
    \/ \E c \in { [location |-> l,
                     resp |-> Response(200, GeoBody("list", NoStr, ManilaHit))] :
                     l \in LocationSamples }
                 \cup { [location |-> l, resp |-> r] : l \in {Manila}, r \in GeoResponses } :
          Call_geocode(c)
    \/ \E c \in { [start_coords |-> s, end_coords |-> e, vehicle |-> "car",
                     resp |-> Response(200, RouteBody("list", NoStr, GoodPath))] :
                     s \in CoordSamples, e \in CoordSamples }
                 \cup { [start_coords |-> GoodStart, end_coords |-> GoodEnd, vehicle |-> v,
                          resp |-> Response(200, RouteBody("list", NoStr, GoodPath))] :
                          v \in VehicleSamples }
                 \cup { [start_coords |-> s, end_coords |-> GoodEnd, vehicle |-> v,
                          resp |-> r] :
                          s \in {GoodStart, Coord(Num(14), Num(MaxLng + 1))},
                          v \in {"car", "plane"}, r \in RouteResponses } :
          Call_get_route(c)
    \/ \E s \in CoordSamples, e \in {GoodEnd, NotADict}, v \in VehicleSamples :
          Call_get_google_maps_url(s, e, v)

SpecAPI == InitAPI /\ [][NextAPI]_vars

\* One session of a program in which the two places are in the entries before
\* the first click and stay as they are, the mode being car.
InitRun ==
    /\ app \in {"ft", "tour", "cli"}
    /\ key \in IF app = "cli" THEN {CliKey} ELSE {ValidKey, KeyNone}
    /\ last_call = NoCall
    /\ start_entry \in IF app = "cli" THEN {EmptyText} ELSE {Txt(<<"X">>), Manila}
    /\ end_entry \in IF app = "cli" THEN {EmptyText} ELSE {Txt(<<"Y">>), Cebu}
    /\ vehicle_var = "car"
    /\ button = "normal"
    /\ is_calculating = FALSE
    /\ status_label = Status("", "", Msg(IF app = "ft" THEN "Ready for mission planning..."
                                         ELSE "Ready to calculate routes"))
    /\ results = ClearedResults
    /\ tk_queue = <<>>
    /\ workers = [w \in WorkerIds |-> IdleWorker]
    /\ threads = 0
    /\ cli = CliIdle

NextRun ==
    \/ FT_start_route_calculation
    \/ \E w \in WorkerIds : FT_get_route_logic_read(w)
    \/ \E w \in WorkerIds : FT_get_route_logic_origin(w)
    \/ \E w \in WorkerIds : FT_get_route_logic_destination(w)
    \/ \E w \in WorkerIds : FT_get_route_logic_route(w)
    \/ Tour_start_route_calculation
    \/ \E w \in WorkerIds : Tour_calculate_route_begin(w)
    \/ \E w \in WorkerIds : Tour_calculate_route_origin(w)
    \/ \E w \in WorkerIds : Tour_calculate_route_destination(w)
    \/ \E w \in WorkerIds : Tour_calculate_route_route(w)
    \/ \E w \in WorkerIds : ThreadExit(w)
    \/ TkRunCallback
    \/ \E t \in CliUnitChoices : Cli_get_unit_preference(t)
    \/ \E t \in CliVehicleInputs : Cli_vehicle_selection(t)
    \/ \E t \in CliLocationInputs : Cli_starting_location(t)
    \/ \E t \in CliLocationInputs : Cli_destination(t)
    \/ \E t \in CliAgainInputs : Cli_plan_another(t)

SpecRun == InitRun /\ [][NextRun]_vars

\* The same session under the scheduling the programs rely on: a thread that
\* can take its next step takes it, a thread that has ended exits, and the
\* Tk event loop runs a callback that is waiting.  Nothing obliges the user
\* to click or to type.
SpecLive ==
    /\ SpecRun
    /\ \A w \in WorkerIds :
         /\ WF_vars(FT_get_route_logic_read(w))
         /\ WF_vars(FT_get_route_logic_origin(w))
         /\ WF_vars(FT_get_route_logic_destination(w))
         /\ WF_vars(FT_get_route_logic_route(w))
         /\ WF_vars(Tour_calculate_route_begin(w))
         /\ WF_vars(Tour_calculate_route_origin(w))
         /\ WF_vars(Tour_calculate_route_destination(w))
         /\ WF_vars(Tour_calculate_route_route(w))
         /\ WF_vars(ThreadExit(w))
    /\ WF_vars(TkRunCallback)

-----------------------------------------------------------------------------
(* Properties of the route workflows (checked under Spec) *)

\* C1: when the origin and the destination geocode to the same (lat, lng)
\* pair, the worker never issues the routing request (route call count 0).
C1_SameLocationNoRoute ==
    \A w \in WorkerIds :
      LET me == workers[w] IN
      (/\ me.orig.status = "success"
       /\ me.dest.status = "success"
       /\ me.orig.lat = me.dest.lat
       /\ me.orig.lng = me.dest.lng)
      => \A i \in DOMAIN me.gets : me.gets[i].api # "route"

\* C2: a workflow that has ended issued its requests in the order
\* geocode(origin), geocode(destination), route; after a failed origin geocode
\* nothing else was requested and the user is told the origin failed; after a
\* failed destination geocode no route was requested and the user is told the
\* destination failed.
C2_OrderAndShortCircuit ==
    \A w \in WorkerIds :
      LET me == workers[w]
          Told(prefix) ==
              \/ status_label.prefix = prefix
              \/ \E i \in DOMAIN tk_queue :
                   tk_queue[i].kind = "status" /\ tk_queue[i].status.prefix = prefix
      IN me.pc = "done" =>
           /\ \A i \in DOMAIN me.gets :
                me.gets[i].api = IF i <= 2 THEN "geocode" ELSE "route"
           /\ Len(me.gets) <= 3
           /\ me.orig.status = "error" =>
                /\ Len(me.gets) <= 1
                /\ me.dest.status = "none"
                /\ me.route.status = "none"
                /\ Told("Origin Error: ")
           /\ (me.orig.status = "success" /\ me.dest.status = "error") =>
                /\ Len(me.gets) <= 2
                /\ me.route.status = "none"
                /\ Told("Destination Error: ")

\* C3: when the origin text or the destination text fails location
\* validation, the workflow issues no HTTP request at all.
C3_InvalidTextNoRequest ==
    \A w \in WorkerIds :
      LET me == workers[w] IN
      (/\ me.pc \notin {"none", "started"}
       /\ \/ validate_location_input(me.start_loc).status = "error"
          \/ validate_location_input(me.dest_loc).status = "error")
      => me.gets = <<>>

\* C4: when the travel-mode token is not in the allow-list, no geocoding
\* request is issued: the mode is checked before the first network call.
C4_ModeCheckedFirst ==
    /\ \A w \in WorkerIds :
         (/\ workers[w].pc \notin {"none", "started"}
          /\ validate_vehicle_type(workers[w].vehicle).status = "error")
         => workers[w].gets = <<>>
    /\ (/\ app = "cli"
        /\ cli.pc \in {"start", "dest", "again"}
        /\ \A i \in DOMAIN vehicle_profiles :
             ProfileText(vehicle_profiles[i]) # Lower(cli.vehicle_input))
       => cli.gets = <<>>

-----------------------------------------------------------------------------
(* Properties of one call of geocode or get_route (checked under SpecAPI) *)

\* C5: geocode and get_route return a dictionary with status success or error
\* for every input and every upstream answer; no exception leaves them.
C5_NoExceptionEscapes ==
    (app \in {"ft", "tour"} /\ last_call.fn # "none")
    => last_call.ret.status \in {"success", "error"}

\* C6: RouteAPI.geocode issues no HTTP request when validate_location_input or
\* the API key check fails, and exactly one GET otherwise, whatever the answer.
C6_GeocodeRequestCount ==
    (app \in {"ft", "tour"} /\ last_call.fn = "geocode")
    => /\ Len(last_call.gets) =
            IF \/ validate_location_input(last_call.location).status = "error"
               \/ validate_api_key(key).status = "error"
            THEN 0 ELSE 1
       /\ \A i \in DOMAIN last_call.gets :
            last_call.gets[i] = GeocodeUrl(last_call.location, key)

\* A geocode call of fantastic-tour.py whose single request timed out.
C6_Witness ==
    /\ app = "ft"
    /\ last_call.fn = "geocode"
    /\ last_call.resp.kind = "timeout"
    /\ last_call.ret.status = "error"
    /\ Len(last_call.gets) = 1

\* C7: every success result of geocode carries a latitude in [-90, 90] and a
\* longitude in [-180, 180].
C7_SuccessInRange ==
    (last_call.fn = "geocode" /\ last_call.ret.status = "success")
    => /\ last_call.ret.lat.t = "num"
       /\ InRange(last_call.ret.lat, MinLat, MaxLat)
       /\ last_call.ret.lng.t = "num"
       /\ InRange(last_call.ret.lng, MinLng, MaxLng)

\* C8: get_route returns success only when the HTTP 200 body has a non-empty
\* paths list whose first entry has distance and time as numbers >= 0.
C8_SuccessNeedsDistanceAndTime ==
    (last_call.fn = "get_route" /\ last_call.ret.status = "success")
    => /\ last_call.resp.kind = "response"
       /\ last_call.resp.status = 200
       /\ last_call.resp.body.json = "dict"
       /\ last_call.resp.body.paths = "list"
       /\ last_call.resp.body.path.distance.t = "num"
       /\ last_call.resp.body.path.distance.n >= 0
       /\ last_call.resp.body.path.time.t = "num"
       /\ last_call.resp.body.path.time.n >= 0

\* The messages of each class of HTTP error.
C9_AuthTexts ==
    { "Invalid API key. Please check your credentials.",
      "API access forbidden. Check your API key permissions.",
      "Invalid API key for routing service.",
      "Routing API access forbidden." }
C9_RateLimitTexts ==
    { "API rate limit exceeded. Please try again later.",
      "Routing API rate limit exceeded." }
C9_UnavailableTexts ==
    { "Server error. Please try again later.",
      "Routing server error. Please try again later." }

\* C9: geocode and get_route map a non-200 status alike: 401 and 403 to an
\* authentication error, 429 to a rate-limit error, 5xx to an
\* upstream-unavailable error, any other to a generic error carrying the code;
\* never to a success.
C9_StatusMapping ==
    (/\ app \in {"ft", "tour"}
     /\ last_call.fn # "none"
     /\ last_call.gets # <<>>
     /\ last_call.resp.kind = "response"
     /\ last_call.resp.status # 200)
    => LET st == last_call.resp.status
           m == last_call.ret.message
       IN /\ last_call.ret.status = "error"
          /\ IF st \in {401, 403} THEN m.text \in C9_AuthTexts
             ELSE IF st = 429 THEN m.text \in C9_RateLimitTexts
             ELSE IF st >= 500 THEN m.text \in C9_UnavailableTexts
             ELSE m.code = st

\* C10 as stated: an HTTP 200 response whose body is a JSON object with hits
\* empty or absent gives the error "No results found for '<location>'".
C10_NoHitsNotFound ==
    (/\ app \in {"ft", "tour"}
     /\ last_call.fn = "geocode"
     /\ last_call.gets # <<>>
     /\ last_call.resp.kind = "response"
     /\ last_call.resp.status = 200
     /\ last_call.resp.body.json = "dict"
     /\ last_call.resp.body.hits \in {"empty", "absent"})
    => last_call.ret = Error(MsgLoc("No results found for ", last_call.location))

\* C10 amended: the error is "No results found for '<location>'" when hits is
\* empty and, in fantastic-tour.py, the body holds no message field; in
\* fantasticTour.py also when hits is absent.
C10_EmptyHitsNotFound ==
    (/\ app \in {"ft", "tour"}
     /\ last_call.fn = "geocode"
     /\ last_call.gets # <<>>
     /\ last_call.resp.kind = "response"
     /\ last_call.resp.status = 200
     /\ last_call.resp.body.json = "dict"
     /\ last_call.resp.body.hits \in {"empty", "absent"}
     /\ \/ app = "tour"
        \/ last_call.resp.body.hits = "empty" /\ ~last_call.resp.body.message.p)
    => last_call.ret = Error(MsgLoc("No results found for ", last_call.location))

\* A geocode call of fantastic-tour.py answered with an empty hits list and
\* no message.
C10_Witness ==
    /\ app = "ft"
    /\ last_call.fn = "geocode"
    /\ last_call.resp.kind = "response"
    /\ last_call.resp.status = 200
    /\ last_call.resp.body.json = "dict"
    /\ last_call.resp.body.hits = "empty"
    /\ ~last_call.resp.body.message.p
    /\ last_call.location = Manila
    /\ last_call.ret = Error(MsgLoc("No results found for ", Manila))

\* C11 as stated: every string of length < 2 fails validate_location_input
\* with the too-short error and every string of length > 200 fails with the
\* too-long error.
C11_ShortAndLong ==
    last_call.fn = "validate_location_input"
    => /\ TLen(last_call.location) < MinLocationLen
            => last_call.ret = Error(Msg("Location must be at least 2 characters long."))
       /\ TLen(last_call.location) > MaxLocationLen
            => last_call.ret = Error(Msg("Location is too long (max 200 characters)."))

\* C11 amended: a string that is not empty or whitespace-only and whose
\* stripped length is < 2 fails with the too-short error; a string of length
\* > 200 whose stripped length is at least 2 fails with the too-long error;
\* the empty and the whitespace-only strings fail with the empty error.
C11_StrippedShortAndLong ==
    last_call.fn = "validate_location_input"
    => LET location == last_call.location
           stripped == TLen(Strip(location))
       IN /\ (stripped > 0 /\ stripped < MinLocationLen)
               => last_call.ret = Error(Msg("Location must be at least 2 characters long."))
          /\ (stripped >= MinLocationLen /\ TLen(location) > MaxLocationLen)
               => last_call.ret = Error(Msg("Location is too long (max 200 characters)."))
          /\ stripped = 0
               => last_call.ret = Error(Msg("Location cannot be empty."))

\* validate_location_input(" a "): three characters, one after strip().
C11_Witness ==
    /\ last_call.fn = "validate_location_input"
    /\ last_call.location = <<R(" ", 1), R("a", 1), R(" ", 1)>>
    /\ last_call.ret = Error(Msg("Location must be at least 2 characters long."))

\* C12 as stated: every string that contains one of < > ; | & $ fails
\* validate_location_input with "Invalid characters in location.".
C12_IllegalCharacterAlways ==
    (/\ last_call.fn = "validate_location_input"
     /\ \E ch \in IllegalChars : Contains(last_call.location, ch))
    => last_call.ret = Error(Msg("Invalid characters in location."))

\* C12 amended: a string that contains one of < > ; | & $, whose stripped
\* length is at least 2 and whose length is at most 200, fails with
\* "Invalid characters in location."; a shorter or longer one fails with the
\* length error, which is checked first.
C12_IllegalCharacterInLength ==
    (/\ last_call.fn = "validate_location_input"
     /\ \E ch \in IllegalChars : Contains(last_call.location, ch))
    => last_call.ret =
         IF TLen(Strip(last_call.location)) < MinLocationLen
         THEN Error(Msg("Location must be at least 2 characters long."))
         ELSE IF TLen(last_call.location) > MaxLocationLen
         THEN Error(Msg("Location is too long (max 200 characters)."))
         ELSE Error(Msg("Invalid characters in location."))

\* validate_location_input("a$b")
C12_Witness ==
    /\ last_call.fn = "validate_location_input"
    /\ last_call.location = <<R("a", 1), R("$", 1), R("b", 1)>>
    /\ last_call.ret = Error(Msg("Invalid characters in location."))

C14_RangeCheckInclusive ==
    (app \in {"ft", "tour"} /\ last_call.fn = "get_route")
    => LET s == last_call.start_coords
           e == last_call.end_coords
           rejected == last_call.ret = Error(Msg("Invalid coordinate values."))
           outside(c) == \/ c.lat.t = "num" /\ (c.lat.n < MinLat \/ c.lat.n > MaxLat)
                         \/ c.lng.t = "num" /\ (c.lng.n < MinLng \/ c.lng.n > MaxLng)
       IN /\ rejected => (outside(s) \/ outside(e)) /\ last_call.gets = <<>>
          /\ (/\ s.t = "dict" /\ s.lat.t = "num" /\ s.lng.t = "num"
              /\ e.t = "dict" /\ e.lat.t = "num" /\ e.lng.t = "num")
             => (rejected <=> (outside(s) \/ outside(e)))

\* get_route from (90, 180) to (-90, -180): the range check passes and the
\* routing request is sent.
C14_Witness ==
    /\ last_call.fn = "get_route"
    /\ last_call.start_coords = Coord(Num(MaxLat), Num(MaxLng))
    /\ last_call.end_coords = Coord(Num(MinLat), Num(MinLng))
    /\ last_call.ret.status = "success"
    /\ Len(last_call.gets) = 1

\* C15: validate_vehicle_type returns success exactly when the token is one
\* of car, bike, foot as written (case-sensitive) and its error for every
\* other token; get_route with a token outside the list issues no HTTP
\* request and, its coordinates being valid, returns that error.
C15_VehicleAllowList ==
    LET allowed == {"car", "bike", "foot"}
        unsupported == Error(Msg("Invalid vehicle type. Must be one of: car, bike, foot"))
        valid(c) == /\ c.t = "dict" /\ c.lat.t = "num" /\ c.lng.t = "num"
                    /\ MinLat <= c.lat.n /\ c.lat.n <= MaxLat
                    /\ MinLng <= c.lng.n /\ c.lng.n <= MaxLng
    IN /\ last_call.fn = "validate_vehicle_type"
            => last_call.ret = IF last_call.vehicle \in allowed THEN Success
                               ELSE unsupported
       /\ (/\ app \in {"ft", "tour"}
           /\ last_call.fn = "get_route"
           /\ last_call.vehicle \notin allowed)
            => /\ last_call.gets = <<>>
               /\ last_call.ret.status # "success"
               /\ (valid(last_call.start_coords) /\ valid(last_call.end_coords))
                    => last_call.ret = unsupported

\* get_route with valid coordinates and the token "Car".
C15_Witness ==
    /\ last_call.fn = "get_route"
    /\ last_call.start_coords = GoodStart
    /\ last_call.end_coords = GoodEnd
    /\ last_call.vehicle = "Car"
    /\ last_call.ret = Error(Msg("Invalid vehicle type. Must be one of: car, bike, foot"))
    /\ last_call.gets = <<>>

\* C18: the display name of a successful geocode is the non-empty ones among
\* name, state and country, joined with ", " in that order: it holds no empty
\* segment and no separator at either end, whichever of state and country
\* the hit carries.
C18_DisplayNameJoined ==
    (/\ last_call.fn = "geocode"
     /\ last_call.ret.status = "success")
    => LET hit == last_call.resp.body.hit
           sep == <<",", " ">>
           join(a, b) == IF a = <<>> THEN b ELSE IF b = <<>> THEN a ELSE a \o sep \o b
       IN last_call.ret.name =
            join(join(GetName(hit.name, <<"Unknown">>), GetName(hit.state, <<>>)),
                 GetName(hit.country, <<>>))

\* C19: geocoding succeeds for every HTTP 200 response whose first hit has a
\* point with a latitude and a longitude in range, whether or not name,
\* state, country and osm_value are present; a hit without a name field gets
\* the default name, never an empty one.
C19_OptionalFields ==
    (/\ last_call.fn = "geocode"
     /\ last_call.gets # <<>>
     /\ last_call.resp.kind = "response"
     /\ last_call.resp.status = 200
     /\ last_call.resp.body.json = "dict"
     /\ last_call.resp.body.hits = "list"
     /\ last_call.resp.body.hit.point = "dict"
     /\ last_call.resp.body.hit.lat.t = "num"
     /\ last_call.resp.body.hit.lng.t = "num"
     /\ MinLat <= last_call.resp.body.hit.lat.n /\ last_call.resp.body.hit.lat.n <= MaxLat
     /\ MinLng <= last_call.resp.body.hit.lng.n /\ last_call.resp.body.hit.lng.n <= MaxLng)
    => /\ last_call.ret.status = "success"
       /\ last_call.ret.lat = last_call.resp.body.hit.lat
       /\ last_call.ret.lng = last_call.resp.body.hit.lng
       /\ ~last_call.resp.body.hit.name.p
            => last_call.ret.name # <<>> /\ Head(last_call.ret.name) = "Unknown"

-----------------------------------------------------------------------------
(* Properties of the display of a route (checked under Spec) *)

\* C16: a successful route response whose first path has no instructions
\* field, or an empty one, completes the workflow as a success: no thread is
\* ended by an exception, distance and duration are shown, the direction list
\* is empty and no error is reported.
C16_NoInstructionsSucceeds ==
    LET routed(data) ==
            /\ data.json = "dict" /\ data.paths = "list"
            /\ data.path.distance.t = "num" /\ data.path.distance.n > 0
            /\ data.path.time.t = "num" /\ data.path.time.n >= 0
        bare(data) ==
            /\ routed(data)
            /\ ~data.path.instructions.p \/ data.path.instructions.v = <<>>
    IN /\ \A w \in WorkerIds :
            (workers[w].route.status = "success" /\ bare(workers[w].route.data))
            => workers[w].pc # "crashed"
       /\ \A i \in DOMAIN tk_queue :
            (tk_queue[i].kind = "display_results" /\ bare(tk_queue[i].data))
            => LET shown == FT_display_results(tk_queue[i].data, results) IN
               /\ shown.results.distance =
                      Label("format_distance", tk_queue[i].data.path.distance)
               /\ shown.results.time = Label("format_time", tk_queue[i].data.path.time)
               /\ shown.results.directions.filled
               /\ shown.results.directions.lines = <<>>
               /\ \A j \in DOMAIN shown.events : shown.events[j].status.color # "red"
       /\ (/\ app = "cli"
           /\ cli.pc = "again"
           /\ cli.answers[Len(cli.answers)].kind = "response"
           /\ cli.answers[Len(cli.answers)].status = 200
           /\ bare(cli.answers[Len(cli.answers)].body))
            => /\ cli.out.summary
               /\ cli.out.lines = <<>>
               /\ cli.out.error = NoMsg

\* C17: when the turn list is rendered, an entry that lacks text or distance
\* is left out without failing the result, the other entries appear in the
\* upstream order, and the rendered steps are numbered 1..k for the k entries
\* rendered.
C17_SkippedNotCounted ==
    LET lacking(e) == ~e.text.p \/ e.distance.t = "absent"
        listed(data) ==
            /\ data.json = "dict" /\ data.paths = "list"
            /\ data.path.distance.t = "num" /\ data.path.distance.n > 0
            /\ data.path.time.t = "num" /\ data.path.time.n >= 0
            /\ data.path.instructions.p
        kept(data) == SelectSeq(data.path.instructions.v, LAMBDA e : ~lacking(e))
        rendered(lines, data) ==
            /\ Len(lines) = Len(kept(data))
            /\ \A j \in DOMAIN lines :
                 lines[j].n = j /\ lines[j].text = kept(data)[j].text.v
    IN /\ \A j \in DOMAIN results.directions.lines : results.directions.lines[j].n = j
       /\ \A w \in WorkerIds :
            (workers[w].route.status = "success" /\ listed(workers[w].route.data))
            => workers[w].pc # "crashed"
       /\ \A i \in DOMAIN tk_queue :
            (/\ tk_queue[i].kind = "display_results"
             /\ listed(tk_queue[i].data)
             /\ tk_queue[i].data.path.instructions.v # <<>>)
            => rendered(FT_display_results(tk_queue[i].data, results).results.directions.lines,
                        tk_queue[i].data)
       /\ (/\ app = "cli"
           /\ cli.pc = "again"
           /\ cli.answers[Len(cli.answers)].kind = "response"
           /\ cli.answers[Len(cli.answers)].status = 200
           /\ listed(cli.answers[Len(cli.answers)].body))
            => /\ cli.out.error = NoMsg
               /\ rendered(cli.out.lines, cli.answers[Len(cli.answers)].body)

-----------------------------------------------------------------------------
(* Properties of one run of the workflow (checked under SpecRun) *)

\* What C20 says of every step of a run whose origin and destination texts
\* satisfy Usable, with mode car and a configured key: the click starts the
\* workflow, the origin query is sent to the geocoder, and when the answer is
\* {hits: []} the workflow ends there, with no further request, and reports
\* "No results found" for the origin text (fantastic-tour.py: under the
\* prefix "Origin Error: ").
C20_FailsAtOrigin(Usable(_, _)) ==
    LET no_hits(answer) ==
            /\ answer.kind = "response" /\ answer.status = 200
            /\ answer.body.json = "dict" /\ answer.body.hits = "empty"
            /\ ~answer.body.message.p
    IN /\ (/\ app \in {"ft", "tour"}
           /\ Usable(start_entry, end_entry)
           /\ vehicle_var = "car"
           /\ ~is_calculating
           /\ FT_start_route_calculation \/ Tour_start_route_calculation)
          => threads' = threads + 1
       /\ \A w \in WorkerIds :
            (/\ workers[w].pc = "geo_origin"
             /\ workers'[w].pc # "geo_origin"
             /\ Usable(workers[w].start_loc, workers[w].dest_loc)
             /\ workers[w].vehicle = "car"
             /\ validate_api_key(key).status = "success")
            => LET me == workers'[w]
                   not_found == MsgLoc("No results found for ", me.start_loc)
               IN /\ me.gets = <<GeocodeUrl(me.start_loc, key)>>
                  /\ Len(me.answers) = 1
                  /\ no_hits(me.answers[1])
                       => /\ me.pc = "done"
                          /\ me.orig = Error(not_found)
                          /\ me.dest = NoResult
                          /\ me.route = NoResult
                          /\ IF app = "ft"
                             THEN \E i \in DOMAIN tk_queue' :
                                    /\ tk_queue'[i].kind = "status"
                                    /\ tk_queue'[i].status.prefix = "Origin Error: "
                                    /\ tk_queue'[i].status.message = not_found
                             ELSE status_label'.message = not_found
       /\ (/\ app = "cli"
           /\ cli.pc = "start"
           /\ cli'.answers # <<>>
           /\ no_hits(cli'.answers[1]))
          => /\ Len(cli'.gets) = 1
             /\ cli'.gets[1].api = "geocode"
             /\ cli'.orig = Error(MsgLoc("No results found for: ", cli'.gets[1].q))
             /\ cli'.dest = NoResult
             /\ cli'.pc = "vehicle"

-----------------------------------------------------------------------------
(* C21: the rendering of a distance *)

\* C21: in the metric system a distance of at least 1000 m is rendered in
\* kilometres with one decimal (1500 m as "1.5 km") and a distance below
\* 1000 m as whole metres (500 m as "500 m"); in the imperial system
\* 1609.34 m is rendered as "1.0 miles".
C21_OneDecimal ==
    (/\ last_call.fn = "format_distance"
     /\ last_call.value.t = "num"
     /\ last_call.value.n >= 0)
    => LET meters == last_call.value.n      \* in hundredths
           shown == last_call.text
           field(whole, frac, unit) ==
               [neg |-> FALSE, zeros |-> 0, whole |-> whole, frac |-> frac, unit |-> unit]
       IN  /\ shown.kind = "text"
           /\ Len(shown.fields) = 1
           /\ (last_call.unit = "metric" /\ meters >= 100000)
                => /\ shown.fields[1].unit = " km"
                   /\ Len(shown.fields[1].frac) = 1
           /\ (last_call.unit = "metric" /\ meters < 100000)
                => /\ shown.fields[1].unit = " m"
                   /\ shown.fields[1].frac = <<>>
           /\ (last_call.unit = "metric" /\ meters = 150000)
                => shown.fields[1] = field(1, <<5>>, " km")
           /\ (last_call.unit = "metric" /\ meters = 50000)
                => shown.fields[1] = field(500, <<>>, " m")
           /\ (last_call.unit = "imperial" /\ meters = 160934)
                => shown.fields[1] = field(1, <<0>>, " miles")

-----------------------------------------------------------------------------
(* C22: the rendering of a duration *)

\* C22: for every non-negative duration in milliseconds, format_time splits
\* floor(ms/1000) seconds into hours h, minutes m in 0..59 and seconds s in
\* 0..59 with h*3600 + m*60 + s equal to the total, and returns "<h>h <mm>m"
\* (minutes padded to two digits) whenever h >= 1, so that 3661000 gives
\* "1h 01m"; a zero duration is formatted without error.
C22_HoursAndMinutes ==
    (/\ last_call.fn = "format_time"
     /\ last_call.value.t = "num"
     /\ last_call.value.n >= 0)
    => LET total == last_call.value.n \div 1000
           h == total \div 3600
           m == (total - h * 3600) \div 60
           s == total - h * 3600 - m * 60
           shown == last_call.text
           field(zeros, whole, unit) ==
               [neg |-> FALSE, zeros |-> zeros, whole |-> whole, frac |-> <<>>, unit |-> unit]
       IN  /\ m \in 0..59 /\ s \in 0..59 /\ h * 3600 + m * 60 + s = total
           /\ shown.kind = "text"
           /\ h >= 1 => shown.fields = <<field(0, h, "h "),
                                         field(IF m < 10 THEN 1 ELSE 0, m, "m")>>
           /\ last_call.value.n = 3661000
                => shown.fields = <<field(0, 1, "h "), field(1, 1, "m")>>

-----------------------------------------------------------------------------
(* C23: the check of the API key *)

\* What geocode and get_route do with a key that fails the check, their other
\* arguments being valid.
C23_CallersRefuse ==
    /\ (/\ last_call.fn = "geocode"
        /\ app \in {"ft", "tour"}
        /\ validate_location_input(last_call.location).status = "success"
        /\ validate_api_key(key).status = "error")
       => /\ last_call.ret = validate_api_key(key)
          /\ last_call.gets = <<>>
    /\ (/\ last_call.fn = "get_route"
        /\ get_route_precheck(last_call.start_coords, last_call.end_coords,
                              last_call.vehicle, ValidKey).status = "success"
        /\ validate_api_key(key).status = "error")
       => /\ last_call.ret = validate_api_key(key)
          /\ last_call.gets = <<>>

\* C23 as stated: validate_api_key returns the 'not found' error when the key
\* is None or the empty string, 'Invalid API key format.' when the key is
\* non-empty but whitespace-only or is not a string, and success for every
\* other key; geocode and get_route return that same error and issue no HTTP
\* request when the check fails.
C23_NotAStringIsInvalid ==
    /\ last_call.fn = "validate_api_key"
       => last_call.ret =
            IF key.t = "none" \/ (key.t = "str" /\ key.s = EmptyText)
            THEN Error(Msg("API key not found. Please check your .env file."))
            ELSE IF key.t # "str" \/ TLen(Strip(key.s)) = 0
            THEN Error(Msg("Invalid API key format."))
            ELSE Success
    /\ C23_CallersRefuse

\* C23, amended: the 'not found' error is returned for every key that is
\* false in a condition (None, the empty string, and a non-string such as 0),
\* 'Invalid API key format.' for a non-empty whitespace-only string and for a
\* non-string that is true in a condition, success for every other key;
\* geocode and get_route, given arguments that pass their own checks, return
\* that same error and issue no HTTP request.
C23_FalsyIsNotFound ==
    /\ last_call.fn = "validate_api_key"
       => last_call.ret =
            IF key.t \in {"none", "zero"} \/ (key.t = "str" /\ key.s = EmptyText)
            THEN Error(Msg("API key not found. Please check your .env file."))
            ELSE IF key.t = "int" \/ TLen(Strip(key.s)) = 0
            THEN Error(Msg("Invalid API key format."))
            ELSE Success
    /\ C23_CallersRefuse

\* get_route stops at a whitespace-only key with no request made.
C23_Witness ==
    /\ last_call.fn = "get_route"
    /\ key = KeyStr(<<R(" ", 1)>>)
    /\ last_call.start_coords = GoodStart
    /\ last_call.vehicle = "car"
    /\ last_call.ret = Error(Msg("Invalid API key format."))
    /\ last_call.gets = <<>>

-----------------------------------------------------------------------------
(* C24: the Google Maps link *)

\* C24: get_google_maps_url builds a URL whose origin is
\* '<start lat>,<start lng>', whose destination is '<end lat>,<end lng>', and
\* whose travelmode is driving for car, bicycling for bike, walking for foot,
\* and driving for every other vehicle token.
C24_GoogleMapsUrl ==
    (/\ last_call.fn = "get_google_maps_url"
     /\ last_call.start_coords.t = "dict"
     /\ last_call.end_coords.t = "dict"
     /\ \A c \in {last_call.start_coords, last_call.end_coords} :
          c.lat.t # "absent" /\ c.lng.t # "absent")
    => /\ last_call.url.kind = "url"
       /\ last_call.url.origin = <<last_call.start_coords.lat, last_call.start_coords.lng>>
       /\ last_call.url.destination = <<last_call.end_coords.lat, last_call.end_coords.lng>>
       /\ last_call.vehicle = "car" => last_call.url.travelmode = "driving"
       /\ last_call.vehicle = "bike" => last_call.url.travelmode = "bicycling"
       /\ last_call.vehicle = "foot" => last_call.url.travelmode = "walking"
       /\ last_call.vehicle \notin {"car", "bike", "foot"}
            => last_call.url.travelmode = "driving"

\* The link for a vehicle outside the table.
C24_Witness ==
    /\ last_call.fn = "get_google_maps_url"
    /\ last_call.vehicle = "scooter"
    /\ last_call.start_coords = GoodStart
    /\ last_call.end_coords = GoodEnd
    /\ last_call.url.kind = "url"
    /\ last_call.url.travelmode = "driving"

-----------------------------------------------------------------------------
(* C25: one calculation at a time *)

\* C25: for any sequence and timing of clicks on the calculate button, at most
\* one worker thread is executing the route calculation at any moment: a
\* click that arrives while a calculation is in flight (a worker started but
\* not yet running included) starts no second worker.
C25_OneWorker ==
    app \in {"ft", "tour"}
    => Cardinality({ w \in WorkerIds : workers[w].pc \notin {"none", "done", "crashed"} }) <= 1

-----------------------------------------------------------------------------
(* C26: idle, calculating, idle *)

\* C26: every calculation that is started eventually returns the application
\* to idle (the calculate button enabled again and, in fantasticTour.py,
\* is_calculating False), whatever the results of the two geocode calls and
\* of the route call are.
C26_BackToIdle ==
    (app \in {"ft", "tour"} /\ (button = "disabled" \/ is_calculating))
    ~> (button = "normal" /\ ~is_calculating)

-----------------------------------------------------------------------------
(* C27: widgets change on the UI thread only *)

\* A step of a worker thread: the record of a worker that is running changes.
C27_WorkerStep ==
    \E w \in WorkerIds :
        /\ workers[w].pc \in {"started", "geo_origin", "geo_dest", "route"}
        /\ workers'[w] # workers[w]

\* C27: the route workflow runs on a worker thread and every change to a
\* widget (status label, distance and time labels, directions box, calculate
\* button, map) is executed on the UI thread: the worker only hands updates
\* to the UI event loop and never modifies a widget itself.
C27_WorkerLeavesWidgets ==
    [][(app \in {"ft", "tour"} /\ C27_WorkerStep)
         => UNCHANGED <<button, status_label, results>>]_vars

-----------------------------------------------------------------------------
(* C28: the strings the worker geocodes *)

\* C28: in fantastic-tour.py the origin and destination strings that the
\* worker thread geocodes are strings that passed validate_user_input for
\* that click, even if the user edits the entry fields between the click and
\* the moment the worker reads them: no string that skipped the click-time
\* checks (non-empty, length, origin different from destination) is sent to
\* the geocoder.
C28_GeocodesCheckedStrings ==
    \A w \in WorkerIds :
        (app = "ft" /\ workers[w].pc \notin {"none", "started"})
        => FT_validate_user_input(workers[w].start_loc, workers[w].dest_loc).ok

-----------------------------------------------------------------------------
(* C29: no stale route beside a failure *)

\* C29: in the GUI, after a calculation that ends in an error or in the
\* same-location warning, the result panel shows no route: the distance and
\* time labels and the directions box never keep the values of an earlier
\* successful calculation while the status reports a failure.
C29_NoStaleRoute ==
    (/\ app \in {"ft", "tour"}
     /\ \/ status_label.color \in {"red", "orange"}
        \/ status_label.prefix = "Error: ")
    => /\ results.distance = Dash
       /\ results.time = Dash
       /\ ~results.directions.filled

-----------------------------------------------------------------------------
(* C30: the main loop of the command-line program *)

\* C30: in the CLI main loop, entering quit, q or exit (in any letter case)
\* at the vehicle, starting-location or destination prompt ends the loop with
\* no further HTTP request; a failed origin geocode restarts the loop at
\* vehicle selection without prompting for a destination or requesting a
\* route, and a failed destination geocode restarts it without requesting a
\* route.
C30_QuitAndRestart ==
    [][LET IsQuit(t) == Lower(Strip(t)) \in QuitWords
           OnlyGeocodes(gets) == \A i \in DOMAIN gets : gets[i].api = "geocode"
       IN  /\ \A t \in CliVehicleInputs :
                (IsQuit(t) /\ Cli_vehicle_selection(t))
                => (cli'.pc = "exit" /\ cli'.gets \in {<<>>, cli.gets})
           /\ \A t \in CliLocationInputs :
                (IsQuit(t) /\ (Cli_starting_location(t) \/ Cli_destination(t)))
                => (cli'.pc = "exit" /\ cli'.gets = cli.gets)
           /\ (app = "cli" /\ cli.pc = "start" /\ cli'.orig.status = "error")
                => (cli'.pc = "vehicle" /\ OnlyGeocodes(cli'.gets)
                    /\ cli'.dest.status = "none")
           /\ (app = "cli" /\ cli.pc = "dest" /\ cli'.dest.status = "error")
                => (cli'.pc = "vehicle" /\ OnlyGeocodes(cli'.gets))]_vars

\* The loop back at the vehicle prompt after a destination that was not
\* found, two geocode requests made and no route request.
C30_Witness ==
    /\ app = "cli"
    /\ cli.pc = "vehicle"
    /\ cli.orig.status = "success"
    /\ cli.dest.status = "error"
    /\ Len(cli.gets) = 2
    /\ \A i \in DOMAIN cli.gets : cli.gets[i].api = "geocode"

=============================================================================
